---- MODULE Spec2Model ----
(***************************************************************************)
(* PubLog dataset indexing service: the catalog (config.py), the DuckDB     *)
(* store handle and index manager (database.py) and the loader             *)
(* (data_loader.py), as a state machine.                                   *)
(*                                                                         *)
(* The engine (DuckDB) is modelled at statement granularity: every         *)
(* statement the code sends through self._connection.execute is one        *)
(* atomic, auto-committed step that either takes effect in full or raises. *)
(* The file system is the environment.                                     *)
(***************************************************************************)
EXTENDS Integers, Sequences, FiniteSets, TLC

(***************************************************************************)
(* Bounds of the model.                                                    *)
(***************************************************************************)
\* Number of distinct contents a source file can have over time.  Version v
\* of a file holds one malformed line and v well-formed rows.
MaxVersion == 2

\* The instances of PubLogDatabase and the engine connections a behaviour
\* makes at most.
MaxInstances == 6
MaxConnections == 6

\* The largest limit a caller passes to a search.
MaxLimit == 2

(***************************************************************************)
(* config.py: the catalog.                                                 *)
(***************************************************************************)
\* DATA_FILES, flattened in definition order: <<category, logical name>>.
DATA_FILES ==
    << <<"cage", "P_CAGE">>, <<"cage", "V_CAGE_ADDRESS">>,
       <<"cage", "V_CAGE_STATUS_AND_TYPE">>,
       <<"h_series", "V_H2_FSC">>, <<"h_series", "V_H2_FSG">>,
       <<"h_series", "V_H3_AMMUNITION">>, <<"h_series", "V_H5_BUSINESS">>,
       <<"h_series", "V_H5_CORPORATE">>, <<"h_series", "V_H5_DOMESTIC">>,
       <<"h_series", "V_H5_FOREIGN">>, <<"h_series", "V_H6_NAME_INC">>,
       <<"h_series", "V_H6_MODIFIER">>, <<"h_series", "V_H6_RELATED">>,
       <<"h_series", "V_FSC_IMM">>,
       <<"identification", "P_FLIS_NSN">>,
       <<"identification", "V_COLLOQUIAL_NAME">>,
       <<"identification", "V_FLIS_CANCELLED_NIIN">>,
       <<"identification", "V_FLIS_IDENTIFICATION">>,
       <<"identification", "V_FLIS_STANDARDIZATION">>,
       <<"management", "V_FLIS_MANAGEMENT">>,
       <<"management", "V_FLIS_MANAGEMENT_FUTURE">>,
       <<"management", "V_FLIS_PHRASE">>, <<"management", "V_MGMT_AIR_FORCE">>,
       <<"management", "V_MGMT_ARMY">>, <<"management", "V_MGMT_COAST_GUARD">>,
       <<"management", "V_MGMT_MARINE_CORPS">>, <<"management", "V_MGMT_NAVY">>,
       <<"management", "V_SOCOM_MANAGEMENT">>,
       <<"freight_packaging", "V_FREIGHT">>,
       <<"freight_packaging", "V_FLIS_PACKAGING_1">>,
       <<"freight_packaging", "V_FLIS_PACKAGING_2">>,
       <<"freight_packaging", "V_FLIS_PACKAGING_3">>,
       <<"history", "V_ITEM_IDENTIFICATION_HISTORY">>,
       <<"history", "V_MANAGEMENT_HISTORY">>,
       <<"history", "V_REFERENCE_NUMBER_HISTORY">>,
       <<"mrd", "MRD0107">>, <<"mrd", "MRD0300">>, <<"mrd", "MRD0500">>,
       <<"mrd", "MRD06P1">>, <<"mrd", "MRD06P2">>,
       <<"large_files", "FLISV">>, <<"large_files", "V_CHARACTERISTICS">>,
       <<"large_files", "V_FLIS_PART">>, <<"large_files", "V_MOE_RULE">> >>

PRIORITY_TABLES ==
    << "P_CAGE", "V_H2_FSC", "V_H2_FSG", "V_H6_NAME_INC", "V_H6_MODIFIER",
       "V_FSC_IMM", "V_FLIS_CANCELLED_NIIN", "V_COLLOQUIAL_NAME",
       "V_FLIS_STANDARDIZATION", "V_H3_AMMUNITION", "V_H5_BUSINESS",
       "V_H5_CORPORATE", "V_H5_DOMESTIC", "V_H5_FOREIGN", "V_H6_RELATED",
       "V_FREIGHT", "V_FLIS_PACKAGING_1", "V_FLIS_PACKAGING_2",
       "V_FLIS_PACKAGING_3", "V_FLIS_PHRASE", "V_MGMT_AIR_FORCE",
       "V_MGMT_ARMY", "V_MGMT_COAST_GUARD", "V_MGMT_MARINE_CORPS",
       "V_MGMT_NAVY", "V_SOCOM_MANAGEMENT", "V_FLIS_MANAGEMENT_FUTURE" >>

\* Mutant: a priority table is listed as a large table too.
LARGE_TABLES_WithPriorityName ==
    << "FLISV", "V_CHARACTERISTICS", "V_FLIS_PART", "V_MOE_RULE",
       "V_FLIS_MANAGEMENT", "P_FLIS_NSN", "V_FLIS_IDENTIFICATION", "P_CAGE" >>

LARGE_TABLES ==
    << "FLISV", "V_CHARACTERISTICS", "V_FLIS_PART", "V_MOE_RULE",
       "V_FLIS_MANAGEMENT", "P_FLIS_NSN", "V_FLIS_IDENTIFICATION" >>

\* The part of the catalog the model runs on: two priority tables, two large
\* tables and one untiered table.  Every list below is the source's list
\* with the other names left out, order kept.
Modelled == {"P_CAGE", "V_H2_FSC", "FLISV", "P_FLIS_NSN", "V_CAGE_ADDRESS"}

IsModelled(n) == n \in Modelled

RECURSIVE FlattenNames(_)
\* get_all_data_files: all_files.update(files) per category; the keys of the
\* resulting dict in insertion order (a repeated key keeps its first place).
FlattenNames(entries) ==
    IF entries = << >> THEN << >>
    ELSE LET init == FlattenNames(SubSeq(entries, 1, Len(entries) - 1))
             name == entries[Len(entries)][2]
         IN  IF \E i \in 1..Len(init) : init[i] = name
             THEN init ELSE Append(init, name)

get_all_data_files == SelectSeq(FlattenNames(DATA_FILES), IsModelled)

PriorityTier == SelectSeq(PRIORITY_TABLES, IsModelled)

\* Mutant: a name of the priority tier is listed in the large tier too.
LargeTierOverlapping ==
    <<PRIORITY_TABLES[1]>> \o SelectSeq(LARGE_TABLES, IsModelled)

LargeTier == SelectSeq(LARGE_TABLES, IsModelled)

Range(s) == {s[i] : i \in 1..Len(s)}

Tables == Range(get_all_data_files)

(***************************************************************************)
(* The environment: source files, and what the engine reads from them.     *)
(***************************************************************************)
\* A line of a source file: well-formed (ok) or malformed.
Line(t, v, i, ok) == [tbl |-> t, niin |-> i, ver |-> v, ok |-> ok]

\* Version v of table t's file: one malformed line, then v well-formed rows.
Content(t, v) ==
    <<Line(t, v, 0, FALSE)>> \o [i \in 1..v |-> Line(t, v, i, TRUE)]

NoFile == [exists |-> FALSE, lines |-> << >>]

FileStates(t) ==
    {NoFile} \cup {[exists |-> TRUE, lines |-> Content(t, v)] : v \in 1..MaxVersion}

IsWellFormed(line) == line.ok

\* read_csv_auto(..., ignore_errors=true): malformed lines are skipped.
ReadCsvAuto(lines) == SelectSeq(lines, IsWellFormed)

(***************************************************************************)
(* The engine: relations and the statements the code executes on them.     *)
(***************************************************************************)
Absent == [exists |-> FALSE, rows |-> << >>]

Loaded(rows) == [exists |-> TRUE, rows |-> rows]

\* SELECT COUNT(*) FROM information_schema.tables WHERE UPPER(table_name) = UPPER(?)
TableCount(st, t) == IF st[t].exists THEN 1 ELSE 0

\* Mutant: the drop is lost.
DropTableLost(st, t) == st

\* DROP TABLE IF EXISTS t
DropTableIfExists(st, t) == [st EXCEPT ![t] = Absent]

\* Mutant: the statement is CREATE OR REPLACE TABLE.
CreateOrReplaceRefused(st, t, file) == ~file.exists

\* CREATE TABLE t AS SELECT * FROM read_csv_auto(file): the engine refuses
\* when t exists or the file cannot be read.
CreateTableRefused(st, t, file) == st[t].exists \/ ~file.exists

CreateTableAs(st, t, file) ==
    [st EXCEPT ![t] = Loaded(ReadCsvAuto(file.lines))]

(***************************************************************************)
(* State.                                                                  *)
(***************************************************************************)
Threads == {"main", "second", "reader"}

VARIABLES
    files,   \* the file system: table name -> its source file
    store,   \* the engine: table name -> relation
    csv,     \* per thread: the frame of its index_csv_file call
    top,     \* per thread: the operation it was asked to run
    prev,    \* the previous index_csv_file call a caller made and saw return
    sweep,   \* per thread: the frame of its initialize_database call
    nsn,     \* per thread: the frame of its NSNService.get_by_niin call
    cls,     \* the class PubLogDatabase and the instances made of it
    getdb,   \* per thread: the frame of its get_db() call
    svc      \* per thread: the service call it made and what came back

vars == <<files, store, csv, top, prev, sweep, nsn, cls, getdb, svc>>

NoCsv ==
    [pc |-> "none", table |-> "", force |-> FALSE, ret |-> FALSE,
     missing |-> FALSE, metaFault |-> FALSE, fault |-> FALSE,
     raisedAt |-> "none", store0 |-> << >>]

NoPrev == [valid |-> FALSE, table |-> "", force |-> FALSE, ret |-> FALSE]

Idle == [op |-> "idle"]

\* An empty dict.
EmptyDict == << >>

\* No get_by_niin call.  result is the returned record as a sequence of at
\* most one row (None: the empty sequence); obs is bookkeeping: what the
\* call's statements found of a relation while a forced reload was replacing
\* it; fault is bookkeeping: the engine failed on a statement of the call for
\* a reason of its own.
NoNsn ==
    [pc |-> "none", niin |-> 0, result |-> << >>, obs |-> {}, fault |-> FALSE]

NoSweep ==
    [stage |-> 0, idx |-> 0, tier |-> EmptyDict, results |-> EmptyDict,
     phase |-> "none", raised |-> FALSE, report |-> EmptyDict, log |-> << >>,
     faulted |-> {}]

\* PubLogDatabase before the first get_db(): _instance is None (0), no
\* instance has been made, no connection opened.  made[i] is the _connection
\* attribute of instance i (0: None, the class attribute's value), opened
\* counts the duckdb.connect calls that succeeded, closed holds the
\* connections that were closed.
\* Bookkeeping: held is the set of instances callers were handed, returned
\* the instances handed out since the last close().
NoClass ==
    [instance |-> 0, made |-> << >>, opened |-> 0, closed |-> {},
     held |-> {}, returned |-> {}]

\* PubLogDatabase once a first get_db() has returned.
HandleOpen ==
    [instance |-> 1, made |-> <<1>>, opened |-> 1, closed |-> {},
     held |-> {1}, returned |-> {1}]

\* No get_db() call.  self is the instance the call works on (0: none yet),
\* connected is bookkeeping: the call opened a connection.
NoGetDb == [pc |-> "none", self |-> 0, connected |-> FALSE]

\* No service call.  args are the call's arguments; faults is bookkeeping:
\* the statements of the call on which the engine failed for a reason of its
\* own; error is "none", "engine" for what the engine raised, or the HTTP
\* status an API handler answered with.
NoSvc ==
    [op |-> "none", args |-> << >>, faults |-> << >>, raised |-> FALSE,
     value |-> << >>, error |-> "none"]

\* The handle is open and no thread is inside get_db() or a service.
HandleReady ==
    /\ cls = HandleOpen
    /\ getdb = [t \in Threads |-> NoGetDb]
    /\ svc = [t \in Threads |-> NoSvc]

Init ==
    /\ HandleReady
    /\ files = [t \in Tables |-> NoFile]
    /\ store = [t \in Tables |-> Absent]
    /\ csv = [t \in Threads |-> NoCsv]
    /\ top = [t \in Threads |-> Idle]
    /\ prev = NoPrev
    /\ sweep = [t \in Threads |-> NoSweep]
    /\ nsn = [t \in Threads |-> NoNsn]

(***************************************************************************)
(* database.py: PubLogDatabase.index_csv_file, one step per statement.     *)
(***************************************************************************)
\* Entering index_csv_file(table, all_files[table], force).
EnterCsv(table, force) ==
    [NoCsv EXCEPT !.pc = "exists", !.table = table, !.force = force,
                  !.store0 = store]

\* Mutant: the exception leaves index_csv_file.
CsvExceptEscapes(frame, site) ==
    [frame EXCEPT !.pc = "raise", !.ret = FALSE, !.raisedAt = site]

\* Line 111: except Exception -> log, return False.
CsvExcept(frame, site) ==
    [frame EXCEPT !.pc = "ret", !.ret = FALSE, !.raisedAt = site]

\* Bookkeeping: the engine failed on a statement of this call for a reason
\* of its own (I/O, memory, ...), as opposed to refusing the statement.
Faulted(frame) == [frame EXCEPT !.fault = TRUE]

CsvReturns(frame, value) == [frame EXCEPT !.pc = "ret", !.ret = value]

\* Mutant: the shortcut is taken for forced calls instead of plain ones.
SkipLoadInverted(indexed, force) == indexed /\ force

\* Line 81: the shortcut for a relation that is already there.
SkipLoad(indexed, force) == indexed /\ ~force

\* Mutant: a forced call drops the relation before it looks for the file.
CsvExistsAfterDrop(t) ==
    /\ csv[t].pc = "exists"
    /\ csv' = [csv EXCEPT ![t] =
                 IF files[csv[t].table].exists
                 THEN [@ EXCEPT !.pc = "indexed"]
                 ELSE [CsvReturns(@, FALSE) EXCEPT !.missing = TRUE]]
    /\ store' = IF csv[t].force THEN DropTableIfExists(store, csv[t].table)
                ELSE store
    /\ UNCHANGED <<files, top, prev, sweep, nsn, cls, getdb, svc>>

\* Line 77: if not file_path.exists(): return False
CsvExists(t) ==
    /\ csv[t].pc = "exists"
    /\ csv' = [csv EXCEPT ![t] =
                 IF files[csv[t].table].exists
                 THEN [@ EXCEPT !.pc = "indexed"]
                 ELSE [CsvReturns(@, FALSE) EXCEPT !.missing = TRUE]]
    /\ UNCHANGED <<files, store, top, prev, sweep, nsn, cls, getdb, svc>>

\* Lines 51-62 and 81: is_table_indexed (False when the lookup raises) and
\* the early return.
CsvIsIndexed(t) ==
    /\ csv[t].pc = "indexed"
    /\ \E fault \in BOOLEAN :
         LET indexed == ~fault /\ TableCount(store, csv[t].table) > 0
             f == [csv[t] EXCEPT !.metaFault = fault]
         IN  csv' = [csv EXCEPT ![t] =
                       IF SkipLoad(indexed, f.force) THEN CsvReturns(f, TRUE)
                       ELSE IF f.force THEN [f EXCEPT !.pc = "drop"]
                       ELSE [f EXCEPT !.pc = "stat"]]
    /\ UNCHANGED <<files, store, top, prev, sweep, nsn, cls, getdb, svc>>

\* Lines 87-88: DROP TABLE IF EXISTS.
CsvDrop(t) ==
    /\ csv[t].pc = "drop"
    /\ \E fault \in BOOLEAN :
         IF fault
         THEN /\ csv' = [csv EXCEPT ![t] = CsvExcept(Faulted(@), "drop")]
              /\ store' = store
         ELSE /\ csv' = [csv EXCEPT ![t].pc = "stat"]
              /\ store' = DropTableIfExists(store, csv[t].table)
    /\ UNCHANGED <<files, top, prev, sweep, nsn, cls, getdb, svc>>

\* Line 91: file_path.stat() raises when the file has gone.
CsvStat(t) ==
    /\ csv[t].pc = "stat"
    /\ csv' = [csv EXCEPT ![t] =
                 IF files[csv[t].table].exists
                 THEN [@ EXCEPT !.pc = "create"]
                 ELSE CsvExcept(@, "stat")]
    /\ UNCHANGED <<files, store, top, prev, sweep, nsn, cls, getdb, svc>>

\* Mutant: a CREATE that fails half-way leaves the rows read so far.
CsvCreatePartial(t) ==
    /\ csv[t].pc = "create"
    /\ \E fault \in BOOLEAN :
         LET tbl == csv[t].table
             new == CreateTableAs(store, tbl, files[tbl])
         IN  IF CreateTableRefused(store, tbl, files[tbl])
             THEN /\ csv' = [csv EXCEPT ![t] = CsvExcept(@, "create")]
                  /\ store' = store
             ELSE IF fault
             THEN /\ csv' = [csv EXCEPT ![t] = CsvExcept(Faulted(@), "create")]
                  /\ store' = [store EXCEPT ![tbl] =
                                 Loaded(SubSeq(new[tbl].rows, 1, 1))]
             ELSE /\ csv' = [csv EXCEPT ![t].pc = "count"]
                  /\ store' = new
    /\ UNCHANGED <<files, top, prev, sweep, nsn, cls, getdb, svc>>

\* Lines 95-104: CREATE TABLE ... AS SELECT * FROM read_csv_auto(...).
CsvCreate(t) ==
    /\ csv[t].pc = "create"
    /\ \E fault \in BOOLEAN :
         LET tbl == csv[t].table
         IN  IF fault \/ CreateTableRefused(store, tbl, files[tbl])
             THEN /\ csv' = [csv EXCEPT ![t] =
                               CsvExcept(IF fault THEN Faulted(@) ELSE @, "create")]
                  /\ store' = store
             ELSE /\ csv' = [csv EXCEPT ![t].pc = "count"]
                  /\ store' = CreateTableAs(store, tbl, files[tbl])
    /\ UNCHANGED <<files, top, prev, sweep, nsn, cls, getdb, svc>>

\* Lines 107-110: SELECT COUNT(*) FROM t, then return True.
CsvCount(t) ==
    /\ csv[t].pc = "count"
    /\ \E fault \in BOOLEAN :
         csv' = [csv EXCEPT ![t] =
                   IF fault \/ ~store[csv[t].table].exists
                   THEN CsvExcept(IF fault THEN Faulted(@) ELSE @, "count")
                   ELSE CsvReturns(@, TRUE)]
    /\ UNCHANGED <<files, store, top, prev, sweep, nsn, cls, getdb, svc>>

CsvStep(t) ==
    \/ CsvExists(t)
    \/ CsvIsIndexed(t)
    \/ CsvDrop(t)
    \/ CsvStat(t)
    \/ CsvCreate(t)
    \/ CsvCount(t)

(***************************************************************************)
(* pages/5_Admin.py: a caller indexes one table.                           *)
(***************************************************************************)
\* The tables the single-table caller picks from in this model.
CallTables == {"P_FLIS_NSN", "FLISV"}

\* db.index_csv_file(selected_table, all_files[selected_table], force) with
\* the table and the force checkbox drawn from the given sets.
DirectCall(t, tables, forces) ==
    /\ top[t].op = "idle"
    /\ \E table \in tables, force \in forces :
         /\ csv' = [csv EXCEPT ![t] = EnterCsv(table, force)]
         /\ top' = [top EXCEPT ![t] = [op |-> "index_csv_file"]]
    /\ UNCHANGED <<files, store, prev, sweep, nsn, cls, getdb, svc>>

DirectReturn(t) ==
    /\ top[t].op = "index_csv_file"
    /\ csv[t].pc \in {"ret", "raise"}
    /\ prev' = [valid |-> TRUE, table |-> csv[t].table,
                force |-> csv[t].force,
                ret |-> csv[t].pc = "ret" /\ csv[t].ret]
    /\ csv' = [csv EXCEPT ![t] = NoCsv]
    /\ top' = [top EXCEPT ![t] = Idle]
    /\ UNCHANGED <<files, store, sweep, nsn, cls, getdb, svc>>

\* The environment replaces or removes a source file between two calls.
EnvChange ==
    /\ \A t \in Threads : top[t].op = "idle"
    /\ \E table \in CallTables :
         \E f \in FileStates(table) :
           /\ f # files[table]
           /\ files' = [files EXCEPT ![table] = f]
    /\ UNCHANGED <<store, csv, top, prev, sweep, nsn, cls, getdb, svc>>

Next ==
    \/ EnvChange
    \/ DirectCall("main", CallTables, BOOLEAN)
    \/ CsvStep("main")
    \/ DirectReturn("main")

Spec == Init /\ [][Next]_vars

(***************************************************************************)
(* database.py: index_priority_tables, index_large_tables,                 *)
(* index_all_tables; data_loader.py: DataLoader.initialize_database.       *)
(***************************************************************************)
\* results[name] = value on a dict.
DictPut(d, name, value) ==
    [k \in DOMAIN d \cup {name} |-> IF k = name THEN value ELSE d[k]]

\* d.update(e)
DictUpdate(d, e) ==
    [k \in DOMAIN d \cup DOMAIN e |-> IF k \in DOMAIN e THEN e[k] ELSE d[k]]

\* Mutant: the large tier is run before the priority tier.
StagesLargeFirst(priority_only) ==
    IF priority_only THEN <<"priority">> ELSE <<"large", "priority", "rest">>

\* The loops initialize_database runs, in order: lines 26-29 of
\* data_loader.py and lines 158-167 of database.py.
Stages(priority_only) ==
    IF priority_only THEN <<"priority">> ELSE <<"priority", "large", "rest">>

\* The list a loop runs over.
StageList(phase) ==
    IF phase = "priority" THEN PriorityTier
    ELSE IF phase = "large" THEN LargeTier
    ELSE get_all_data_files

\* Mutant: a tier stops at the first table that fails.
TierStopsOnFailure(i, n, ok) == IF ok THEN i + 1 ELSE n + 1

\* The for loop of a tier goes on to the next name whatever the result was.
TierAdvance(i, n, ok) == i + 1

LogStart(name) == [ev |-> "start", name |-> name, ok |-> FALSE]

LogEnd(name, ok) == [ev |-> "end", name |-> name, ok |-> ok]

\* Bookkeeping: the table of an index_csv_file call in which the engine
\* failed for a reason of its own, as a set of at most one name.
EngineFailed(frame) ==
    IF frame.fault \/ frame.metaFault THEN {frame.table} ELSE {}

\* An exception that reaches initialize_database ends it.
SweepAborted(frame) == [frame EXCEPT !.phase = "done", !.raised = TRUE]

\* data_loader.py lines 34-42.
Report(results) ==
    LET n == Cardinality(DOMAIN results)
        success_count == Cardinality({k \in DOMAIN results : results[k]})
    IN  [success |-> success_count = n, indexed |-> success_count,
         total |-> n, details |-> results]

\* DataLoader._create_search_indexes: the mapped tables, in dict order.
index_definitions ==
    SelectSeq(<<"P_CAGE", "V_H2_FSC", "V_H2_FSG", "V_H6_NAME_INC",
                "V_FLIS_IDENTIFICATION", "P_FLIS_NSN", "FLISV">>, IsModelled)

\* A caller starts DataLoader.initialize_database(force, priority_only) with
\* the two arguments drawn from the given sets.
StartSweep(t, forces, modes) ==
    /\ top[t].op = "idle"
    /\ \E force \in forces, priority_only \in modes :
         /\ top' = [top EXCEPT ![t] =
                      [op |-> "initialize_database", force |-> force,
                       priority_only |-> priority_only]]
         /\ sweep' = [sweep EXCEPT ![t] =
                        [NoSweep EXCEPT !.stage = 1, !.idx = 1,
                                        !.phase = Stages(priority_only)[1]]]
    /\ UNCHANGED <<files, store, csv, prev, nsn, cls, getdb, svc>>

\* A caller starts a sweep with any arguments.
InitializeDatabase(t) == StartSweep(t, BOOLEAN, BOOLEAN)

\* database.py lines 132-136 / 145-149: one iteration of a tier's loop up to
\* the call of index_csv_file.
TierIter(t) ==
    /\ sweep[t].phase \in {"priority", "large"}
    /\ csv[t].pc = "none"
    /\ sweep[t].idx <= Len(StageList(sweep[t].phase))
    /\ LET name == StageList(sweep[t].phase)[sweep[t].idx]
       IN  IF name \in Range(get_all_data_files)
           THEN /\ csv' = [csv EXCEPT ![t] = EnterCsv(name, top[t].force)]
                /\ sweep' = [sweep EXCEPT ![t].log = Append(@, LogStart(name))]
           ELSE /\ csv' = csv
                /\ sweep' = [sweep EXCEPT ![t].idx = @ + 1]
    /\ UNCHANGED <<files, store, top, prev, nsn, cls, getdb, svc>>

\* database.py lines 134 / 147: results[table_name] = index_csv_file(...).
TierRecord(t) ==
    /\ sweep[t].phase \in {"priority", "large"}
    /\ csv[t].pc \in {"ret", "raise"}
    /\ sweep' = [sweep EXCEPT ![t] =
                   IF csv[t].pc = "raise" THEN SweepAborted(@)
                   ELSE [@ EXCEPT
                           !.tier = DictPut(@, csv[t].table, csv[t].ret),
                           !.faulted = @ \cup EngineFailed(csv[t]),
                           !.idx = TierAdvance(@, Len(StageList(sweep[t].phase)),
                                               csv[t].ret),
                           !.log = Append(@, LogEnd(csv[t].table, csv[t].ret))]]
    /\ csv' = [csv EXCEPT ![t] = NoCsv]
    /\ UNCHANGED <<files, store, top, prev, nsn, cls, getdb, svc>>

\* database.py lines 138 / 151 (return results) and the caller's use of it:
\* results.update(...) in index_all_tables (lines 159, 162), the assignment
\* in initialize_database (data_loader.py line 27).
TierReturn(t) ==
    /\ sweep[t].phase \in {"priority", "large"}
    /\ csv[t].pc = "none"
    /\ sweep[t].idx > Len(StageList(sweep[t].phase))
    /\ LET stages == Stages(top[t].priority_only)
           next == sweep[t].stage + 1
       IN  sweep' = [sweep EXCEPT ![t] =
                       [@ EXCEPT
                          !.results = IF top[t].priority_only THEN sweep[t].tier
                                      ELSE DictUpdate(@, sweep[t].tier),
                          !.tier = EmptyDict,
                          !.stage = next,
                          !.idx = 1,
                          !.phase = IF next <= Len(stages) THEN stages[next]
                                    ELSE "indexes"]]
    /\ UNCHANGED <<files, store, csv, top, prev, nsn, cls, getdb, svc>>

\* database.py lines 165-167: one iteration of the loop over the remaining
\* tables up to the call of index_csv_file.
RestIter(t) ==
    /\ sweep[t].phase = "rest"
    /\ csv[t].pc = "none"
    /\ sweep[t].idx <= Len(StageList("rest"))
    /\ LET name == StageList("rest")[sweep[t].idx]
       IN  IF name \notin DOMAIN sweep[t].results
           THEN /\ csv' = [csv EXCEPT ![t] = EnterCsv(name, top[t].force)]
                /\ sweep' = [sweep EXCEPT ![t].log = Append(@, LogStart(name))]
           ELSE /\ csv' = csv
                /\ sweep' = [sweep EXCEPT ![t].idx = @ + 1]
    /\ UNCHANGED <<files, store, top, prev, nsn, cls, getdb, svc>>

\* database.py line 167: results[table_name] = index_csv_file(...).
RestRecord(t) ==
    /\ sweep[t].phase = "rest"
    /\ csv[t].pc \in {"ret", "raise"}
    /\ sweep' = [sweep EXCEPT ![t] =
                   IF csv[t].pc = "raise" THEN SweepAborted(@)
                   ELSE [@ EXCEPT
                           !.results = DictPut(@, csv[t].table, csv[t].ret),
                           !.faulted = @ \cup EngineFailed(csv[t]),
                           !.idx = @ + 1,
                           !.log = Append(@, LogEnd(csv[t].table, csv[t].ret))]]
    /\ csv' = [csv EXCEPT ![t] = NoCsv]
    /\ UNCHANGED <<files, store, top, prev, nsn, cls, getdb, svc>>

\* database.py line 169: index_all_tables returns.
RestReturn(t) ==
    /\ sweep[t].phase = "rest"
    /\ csv[t].pc = "none"
    /\ sweep[t].idx > Len(StageList("rest"))
    /\ sweep' = [sweep EXCEPT ![t] =
                   [@ EXCEPT !.stage = @ + 1, !.idx = 1, !.phase = "indexes"]]
    /\ UNCHANGED <<files, store, csv, top, prev, nsn, cls, getdb, svc>>

\* data_loader.py lines 56-58 and database.py lines 115-125: one mapped
\* table of _create_search_indexes.  is_table_indexed answers False when its
\* lookup raises; every CREATE INDEX that raises is caught in create_indexes;
\* no statement of it changes a relation.
IndexIter(t) ==
    /\ sweep[t].phase = "indexes"
    /\ sweep[t].idx <= Len(index_definitions)
    /\ \E fault \in BOOLEAN :
         LET table == index_definitions[sweep[t].idx]
             indexed == ~fault /\ TableCount(store, table) > 0
         IN  sweep' = [sweep EXCEPT ![t].idx = @ + 1]
    /\ UNCHANGED <<files, store, csv, top, prev, nsn, cls, getdb, svc>>

\* data_loader.py lines 34-42: the report.
InitReturn(t) ==
    /\ sweep[t].phase = "indexes"
    /\ sweep[t].idx > Len(index_definitions)
    /\ sweep' = [sweep EXCEPT ![t] =
                   [@ EXCEPT !.phase = "done",
                             !.report = Report(sweep[t].results)]]
    /\ UNCHANGED <<files, store, csv, top, prev, nsn, cls, getdb, svc>>

\* The caller takes the report (or the exception).
InitDone(t) ==
    /\ top[t].op = "initialize_database"
    /\ sweep[t].phase = "done"
    /\ top' = [top EXCEPT ![t] = Idle]
    /\ sweep' = [sweep EXCEPT ![t] = NoSweep]
    /\ UNCHANGED <<files, store, csv, prev, nsn, cls, getdb, svc>>

SweepStep(t) ==
    \/ TierIter(t)
    \/ TierRecord(t)
    \/ TierReturn(t)
    \/ RestIter(t)
    \/ RestRecord(t)
    \/ RestReturn(t)
    \/ IndexIter(t)
    \/ InitReturn(t)
    \/ InitDone(t)

\* Sweeps run against a file system that holds, for every table, either no
\* file or the latest version of it.
InitSweep ==
    /\ HandleReady
    /\ \E present \in SUBSET Tables :
         files = [t \in Tables |->
                    IF t \in present
                    THEN [exists |-> TRUE, lines |-> Content(t, MaxVersion)]
                    ELSE NoFile]
    /\ store = [t \in Tables |-> Absent]
    /\ csv = [t \in Threads |-> NoCsv]
    /\ top = [t \in Threads |-> Idle]
    /\ prev = NoPrev
    /\ sweep = [t \in Threads |-> NoSweep]
    /\ nsn = [t \in Threads |-> NoNsn]

NextSweep ==
    \/ InitializeDatabase("main")
    \/ CsvStep("main")
    \/ SweepStep("main")

SpecSweep == InitSweep /\ [][NextSweep]_vars

(***************************************************************************)
(* data_loader.py: NSNService.get_by_niin, one step per statement.         *)
(***************************************************************************)
\* The keys a caller asks for: the keys the files can hold and one more.
Niins == 1..(MaxVersion + 1)

\* SELECT * FROM t WHERE NIIN = ? LIMIT 1, as database.py query() returns it.
QueryByNiin(st, t, niin) ==
    LET hits == SelectSeq(st[t].rows, LAMBDA r : r.niin = niin)
    IN  IF hits = << >> THEN << >> ELSE <<hits[1]>>

\* A forced index_csv_file call of thread u is replacing a relation that was
\* loaded when the call began.
Replacing(u, table) ==
    /\ csv[u].pc \in {"exists", "indexed", "drop", "stat", "create", "count"}
    /\ csv[u].table = table
    /\ csv[u].force
    /\ csv[u].store0[table].exists
    /\ files[table].exists

\* Bookkeeping: what a statement of get_by_niin finds of a relation, beside
\* the relation a running forced reload began with and the one it is loading.
Observed(frame, table) ==
    [frame EXCEPT !.obs = @ \cup
        {[table |-> table, seen |-> store[table],
          old |-> csv[u].store0[table],
          new |-> Loaded(ReadCsvAuto(files[table].lines))] :
            u \in {v \in Threads : Replacing(v, table)}}]

\* A caller starts nsn_service.get_by_niin(niin).
GetByNiin(t) ==
    /\ top[t].op = "idle"
    /\ \E niin \in Niins :
         nsn' = [nsn EXCEPT ![t] = [NoNsn EXCEPT !.pc = "p_indexed",
                                                 !.niin = niin]]
    /\ top' = [top EXCEPT ![t] = [op |-> "get_by_niin"]]
    /\ UNCHANGED <<files, store, csv, prev, sweep, cls, getdb, svc>>

\* Lines 230 / 239: if self.db.is_table_indexed(table).
NsnIsIndexed(t, table, here, yes, no) ==
    /\ nsn[t].pc = here
    /\ \E fault \in BOOLEAN :
         LET indexed == ~fault /\ TableCount(store, table) > 0
         IN  nsn' = [nsn EXCEPT ![t] =
                       [Observed(@, table) EXCEPT
                          !.pc = IF indexed THEN yes ELSE no,
                          !.fault = @ \/ fault]]
    /\ UNCHANGED <<files, store, csv, top, prev, sweep, cls, getdb, svc>>

\* Lines 231-236 / 240-245: the query (database.py query() logs and re-raises
\* what the engine raises) and the return of the first row.
NsnQuery(t, table, here, miss) ==
    /\ nsn[t].pc = here
    /\ \E fault \in BOOLEAN :
         LET results == QueryByNiin(store, table, nsn[t].niin)
         IN  nsn' = [nsn EXCEPT ![t] =
                       IF fault \/ ~store[table].exists
                       THEN [Observed(@, table) EXCEPT !.pc = "raise",
                                                       !.fault = @ \/ fault]
                       ELSE IF results # << >>
                       THEN [Observed(@, table) EXCEPT !.pc = "ret",
                                                       !.result = results]
                       ELSE [Observed(@, table) EXCEPT !.pc = miss]]
    /\ UNCHANGED <<files, store, csv, top, prev, sweep, cls, getdb, svc>>

NsnPrimaryIndexed(t) ==
    NsnIsIndexed(t, "P_FLIS_NSN", "p_indexed", "p_query", "f_indexed")

\* Mutant: a primary relation without the row ends the lookup.
NsnPrimaryQueryOnly(t) == NsnQuery(t, "P_FLIS_NSN", "p_query", "ret")

NsnPrimaryQuery(t) == NsnQuery(t, "P_FLIS_NSN", "p_query", "f_indexed")

NsnFallbackIndexed(t) ==
    NsnIsIndexed(t, "FLISV", "f_indexed", "f_query", "ret")

NsnFallbackQuery(t) == NsnQuery(t, "FLISV", "f_query", "ret")

\* The caller takes the record, None or the exception.
NsnDone(t) ==
    /\ top[t].op = "get_by_niin"
    /\ nsn[t].pc \in {"ret", "raise"}
    /\ top' = [top EXCEPT ![t] = Idle]
    /\ nsn' = [nsn EXCEPT ![t] = NoNsn]
    /\ UNCHANGED <<files, store, csv, prev, sweep, cls, getdb, svc>>

NsnStep(t) ==
    \/ NsnPrimaryIndexed(t)
    \/ NsnPrimaryQuery(t)
    \/ NsnFallbackIndexed(t)
    \/ NsnFallbackQuery(t)
    \/ NsnDone(t)

(***************************************************************************)
(* Concurrent callers of the one handle: Streamlit runs every session's    *)
(* script in a thread of its own, and all of them share get_db().          *)
(***************************************************************************)
\* The table the concurrent sessions reload, always with force.
ReloadedTables == {"P_FLIS_NSN"}

\* Earlier loads have left any relation of the single-table caller's tables;
\* their files are at the latest version.
InitConcurrent ==
    /\ HandleReady
    /\ files = [t \in Tables |->
                  IF t \in CallTables
                  THEN [exists |-> TRUE, lines |-> Content(t, MaxVersion)]
                  ELSE NoFile]
    /\ \E loaded \in [CallTables -> 0..MaxVersion] :
         store = [t \in Tables |->
                    IF t \in CallTables /\ loaded[t] > 0
                    THEN Loaded(ReadCsvAuto(Content(t, loaded[t])))
                    ELSE Absent]
    /\ csv = [t \in Threads |-> NoCsv]
    /\ top = [t \in Threads |-> Idle]
    /\ prev = NoPrev
    /\ sweep = [t \in Threads |-> NoSweep]
    /\ nsn = [t \in Threads |-> NoNsn]

\* One session reloads tables while another looks stock numbers up.
NextReaders ==
    \/ DirectCall("main", ReloadedTables, {TRUE})
    \/ CsvStep("main")
    \/ DirectReturn("main")
    \/ GetByNiin("reader")
    \/ NsnStep("reader")

SpecReaders == InitConcurrent /\ [][NextReaders]_vars

\* One caller looks stock numbers up; nothing is being loaded.
NextLookup ==
    \/ GetByNiin("reader")
    \/ NsnStep("reader")

SpecLookup == InitConcurrent /\ [][NextLookup]_vars

\* Two sessions reload tables at the same time.
NextLoaders ==
    \E t \in {"main", "second"} :
        \/ DirectCall(t, ReloadedTables, {TRUE})
        \/ CsvStep(t)
        \/ DirectReturn(t)

SpecLoaders == InitConcurrent /\ [][NextLoaders]_vars

\* Every catalogued file is in place and nothing has been loaded yet.
InitSweeps ==
    /\ HandleReady
    /\ files = [t \in Tables |->
                  [exists |-> TRUE, lines |-> Content(t, MaxVersion)]]
    /\ store = [t \in Tables |-> Absent]
    /\ csv = [t \in Threads |-> NoCsv]
    /\ top = [t \in Threads |-> Idle]
    /\ prev = NoPrev
    /\ sweep = [t \in Threads |-> NoSweep]
    /\ nsn = [t \in Threads |-> NoNsn]

\* Two sessions press "Index Priority Tables" without force (app.py line
\* 135, pages/5_Admin.py line 219) while the other's sweep is under way:
\* the statements of index_csv_file a non-forced call runs and the steps of
\* a priority-only sweep.
NextSweeps ==
    \E t \in {"main", "second"} :
        \/ StartSweep(t, {FALSE}, {TRUE})
        \/ CsvExists(t)
        \/ CsvIsIndexed(t)
        \/ CsvStat(t)
        \/ CsvCreate(t)
        \/ CsvCount(t)
        \/ TierIter(t)
        \/ TierRecord(t)
        \/ TierReturn(t)
        \/ IndexIter(t)
        \/ InitReturn(t)
        \/ InitDone(t)

SpecSweeps == InitSweeps /\ [][NextSweeps]_vars

(***************************************************************************)
(* database.py: get_db(), PubLogDatabase.__new__, __init__ and close(),    *)
(* one step per read or write of _instance and _connection.                *)
(***************************************************************************)
\* A caller starts get_db(), that is PubLogDatabase().
GetDb(t) ==
    /\ top[t].op = "idle"
    /\ top' = [top EXCEPT ![t] = [op |-> "get_db"]]
    /\ getdb' = [getdb EXCEPT ![t] = [NoGetDb EXCEPT !.pc = "new"]]
    /\ UNCHANGED <<files, store, csv, prev, sweep, nsn, cls, svc>>

\* Mutant: __new__ makes an instance whether or not one exists.
NeedsInstanceAlways(instance) == TRUE

\* Line 24: if cls._instance is None.
NeedsInstance(instance) == instance = 0

\* Line 24: the test of __new__.
NewCheck(t) ==
    /\ getdb[t].pc = "new"
    /\ getdb' = [getdb EXCEPT ![t].pc =
                   IF NeedsInstance(cls.instance) THEN "create" ELSE "new_ret"]
    /\ UNCHANGED <<files, store, csv, top, prev, sweep, nsn, cls, svc>>

\* Line 25: cls._instance = super().__new__(cls).  The new instance has no
\* _connection of its own and reads the class attribute, None.
NewCreate(t) ==
    /\ getdb[t].pc = "create"
    /\ Len(cls.made) < MaxInstances
    /\ cls' = [cls EXCEPT !.made = Append(@, 0),
                          !.instance = Len(cls.made) + 1]
    /\ getdb' = [getdb EXCEPT ![t].pc = "new_ret"]
    /\ UNCHANGED <<files, store, csv, top, prev, sweep, nsn, svc>>

\* Line 26: return cls._instance.  type.__call__ runs __init__ on what
\* __new__ returned when that is an instance of the class; None is handed
\* to the caller as it is.
NewReturn(t) ==
    /\ getdb[t].pc = "new_ret"
    /\ getdb' = [getdb EXCEPT ![t] =
                   [@ EXCEPT !.self = cls.instance,
                             !.pc = IF cls.instance = 0 THEN "ret"
                                    ELSE "init"]]
    /\ UNCHANGED <<files, store, csv, top, prev, sweep, nsn, cls, svc>>

\* Line 29: if self._connection is None.
NeedsConnection(connection) == connection = 0

\* Line 29: the test of __init__.
InitCheck(t) ==
    /\ getdb[t].pc = "init"
    /\ getdb' = [getdb EXCEPT ![t].pc =
                   IF NeedsConnection(cls.made[getdb[t].self])
                   THEN "connect" ELSE "ret"]
    /\ UNCHANGED <<files, store, csv, top, prev, sweep, nsn, cls, svc>>

\* Lines 30-31: self._connection = duckdb.connect(...), which may raise,
\* and _setup_extensions(), which swallows what its statement raises.
InitConnect(t) ==
    /\ getdb[t].pc = "connect"
    /\ \E fault \in BOOLEAN :
         IF fault
         THEN /\ getdb' = [getdb EXCEPT ![t].pc = "raise"]
              /\ cls' = cls
         ELSE /\ cls.opened < MaxConnections
              /\ cls' = [cls EXCEPT !.opened = @ + 1,
                                    !.made[getdb[t].self] = cls.opened + 1]
              /\ getdb' = [getdb EXCEPT ![t] =
                             [@ EXCEPT !.pc = "ret", !.connected = TRUE]]
    /\ UNCHANGED <<files, store, csv, top, prev, sweep, nsn, svc>>

\* The caller takes the handle (None: 0) or the exception.
GetDbReturn(t) ==
    /\ top[t].op = "get_db"
    /\ getdb[t].pc \in {"ret", "raise"}
    /\ cls' = IF getdb[t].pc = "ret"
              THEN [cls EXCEPT !.held = @ \cup {getdb[t].self},
                               !.returned = @ \cup {getdb[t].self}]
              ELSE cls
    /\ getdb' = [getdb EXCEPT ![t] = NoGetDb]
    /\ top' = [top EXCEPT ![t] = Idle]
    /\ UNCHANGED <<files, store, csv, prev, sweep, nsn, svc>>

GetDbStep(t) ==
    \/ NewCheck(t)
    \/ NewCreate(t)
    \/ NewReturn(t)
    \/ InitCheck(t)
    \/ InitConnect(t)
    \/ GetDbReturn(t)

\* Lines 246-251: a caller closes a handle it was given.
Close(t) ==
    /\ top[t].op = "idle"
    /\ \E h \in cls.held \ {0} :
         cls' = IF cls.made[h] # 0
                THEN [cls EXCEPT !.closed = @ \cup {cls.made[h]},
                                 !.made[h] = 0,
                                 !.instance = 0,
                                 !.returned = {}]
                ELSE [cls EXCEPT !.returned = {}]
    /\ UNCHANGED <<files, store, csv, top, prev, sweep, nsn, getdb, svc>>

\* The process has just started: no handle, no relation, no file.
InitHandle ==
    /\ cls = NoClass
    /\ getdb = [t \in Threads |-> NoGetDb]
    /\ svc = [t \in Threads |-> NoSvc]
    /\ files = [t \in Tables |-> NoFile]
    /\ store = [t \in Tables |-> Absent]
    /\ csv = [t \in Threads |-> NoCsv]
    /\ top = [t \in Threads |-> Idle]
    /\ prev = NoPrev
    /\ sweep = [t \in Threads |-> NoSweep]
    /\ nsn = [t \in Threads |-> NoNsn]

\* One caller opens and closes the handle.
NextHandle ==
    \/ GetDb("main")
    \/ GetDbStep("main")
    \/ Close("main")

SpecHandle == InitHandle /\ [][NextHandle]_vars

\* Several sessions ask for the handle at the same time; none closes it.
NextHandles ==
    \E t \in Threads :
        \/ GetDb(t)
        \/ GetDbStep(t)

SpecHandles == InitHandle /\ [][NextHandles]_vars

(***************************************************************************)
(* Text, as the services and the engine treat it.  A text is a sequence of *)
(* one-character strings.                                                  *)
(***************************************************************************)
\* The characters of the model, in code-point order.
Chars == <<"0", "1", "2", "3", "4", "5", "6", "7", "8", "9",
           "A", "B", "a", "b", "z">>

CharCode(c) == CHOOSE i \in 1..Len(Chars) : Chars[i] = c

Digits == {Chars[i] : i \in 1..10}

\* str.upper() and SQL UPPER() on one character.
UpperChar(c) == IF c = "a" THEN "A" ELSE IF c = "b" THEN "B" ELSE c

\* str.upper() / UPPER(column).
Upper(text) == [i \in 1..Len(text) |-> UpperChar(text[i])]

\* column LIKE '%pattern%' for a pattern without wildcards.
Like(text, pattern) ==
    \E i \in 0..(Len(text) - Len(pattern)) :
        SubSeq(text, i + 1, i + Len(pattern)) = pattern

\* int(text) succeeds (no ValueError): a non-empty run of decimal digits.
IsInt(text) == Len(text) > 0 /\ \A i \in 1..Len(text) : text[i] \in Digits

\* int(text) for a run of decimal digits.
RECURSIVE IntOf(_)
IntOf(text) ==
    IF text = << >> THEN 0
    ELSE IntOf(SubSeq(text, 1, Len(text) - 1)) * 10
         + (CharCode(text[Len(text)]) - 1)

\* An argument a caller passes as a Python str or as a Python int; the
\* field of the other type is left at its empty value.
Str(text) == [type |-> "str", text |-> text, num |-> 0]

Num(n) == [type |-> "int", text |-> << >>, num |-> n]

\* int(x) succeeds (no ValueError) for a str or int x.
ParsesAsInt(x) == x.type = "int" \/ IsInt(x.text)

\* int(x) for a str or int x on which it succeeds.
PyInt(x) == IF x.type = "int" THEN x.num ELSE IntOf(x.text)

\* CAST(n AS VARCHAR) for n >= 0.
RECURSIVE TextOf(_)
TextOf(n) ==
    IF n < 10 THEN <<Chars[n + 1]>>
    ELSE TextOf(n \div 10) \o <<Chars[(n % 10) + 1]>>

\* a < b in the engine's binary collation.
RECURSIVE TextLess(_, _)
TextLess(a, b) ==
    IF b = << >> THEN FALSE
    ELSE IF a = << >> THEN TRUE
    ELSE IF a[1] # b[1] THEN CharCode(a[1]) < CharCode(b[1])
    ELSE TextLess(Tail(a), Tail(b))

(***************************************************************************)
(* The columns of the source files' rows.  Row i of a file carries key i;  *)
(* its other columns are derived from the key.                             *)
(***************************************************************************)
CAGE_CODE(r) == <<"A", Chars[r.niin + 1]>>
COMPANY(r) == IF r.niin % 2 = 1 THEN <<"a", "B">> ELSE <<"B", "b">>
CITY(r) == IF r.niin % 2 = 1 THEN <<"z">> ELSE <<"a">>
STATE_PROVINCE(r) == IF r.niin % 2 = 1 THEN <<"A">> ELSE <<"B">>
COUNTRY(r) == <<"z", "A">>
FSC(r) == IF r.niin = 1 THEN 1095 ELSE 999 + 3 * r.niin
FSC_TITLE(r) == IF r.niin % 2 = 1 THEN <<"B", "a">> ELSE <<"b", "B">>
FSG_TITLE(r) == <<"a", "z">>
NIIN(r) == <<"0", Chars[r.niin + 1]>>
ITEM_NAME(r) == IF r.niin % 2 = 1 THEN <<"a">> ELSE <<"b", "a">>
INC(r) == <<"1", Chars[((r.niin + 1) \div 2) + 1]>>
FIIG_TITLE(r) == IF r.niin % 2 = 1 THEN <<"b">> ELSE <<"A", "b">>
DEFINITION(r) == <<"z">>

(***************************************************************************)
(* database.py: PubLogDatabase.query and the clauses of the statements the *)
(* services send.                                                          *)
(***************************************************************************)
\* What a call gives back: an exception, or a value.
Raised == [raised |-> TRUE, value |-> << >>]

Returned(v) == [raised |-> FALSE, value |-> v]

\* Mutant: query logs the engine's error and returns no rows.
QuerySwallows(st, table, fault) ==
    IF fault \/ table \notin DOMAIN st \/ ~st[table].exists
    THEN Returned(<< >>)
    ELSE Returned(st[table].rows)

\* Lines 171-185: the rows the engine reads for SELECT * FROM table, before
\* the statement's WHERE, ORDER BY and LIMIT; whatever the engine raises
\* (relation missing, any failure of its own) is logged and raised again.
query(st, table, fault) ==
    IF fault \/ table \notin DOMAIN st \/ ~st[table].exists
    THEN Raised
    ELSE Returned(st[table].rows)

\* Mutant: every relation is taken to be loaded.
is_table_indexed_assumed(st, table, fault) == TRUE

\* Lines 51-62: is_table_indexed; False when its lookup raises.
is_table_indexed(st, table, fault) ==
    ~fault /\ table \in DOMAIN st /\ st[table].exists

\* The place of every text among texts in the engine's collation.
TextRanks(texts) ==
    [i \in 1..Len(texts) |->
        Cardinality({j \in 1..Len(texts) : TextLess(texts[j], texts[i])})]

\* ORDER BY: the rows in the order of their ranks, equal ranks in stored
\* order.
OrderBy(rows, ranks) ==
    LET n == Len(rows)
        Before(j, i) ==
            ranks[j] < ranks[i] \/ (ranks[j] = ranks[i] /\ j < i)
        Place(i) == 1 + Cardinality({j \in 1..n : Before(j, i)})
    IN  [p \in 1..n |-> rows[CHOOSE i \in 1..n : Place(i) = p]]

\* LIMIT n OFFSET k.
Limit(rows, n, k) ==
    SubSeq(rows, k + 1, IF k + n < Len(rows) THEN k + n ELSE Len(rows))

\* results[0] if results else None; None is the empty sequence.
FirstOrNone(results) == IF results = << >> THEN << >> ELSE <<results[1]>>

(***************************************************************************)
(* data_loader.py: the query services, each call as the function of the    *)
(* store, its arguments and the engine failures that strike it.            *)
(***************************************************************************)
\* LIMIT 100 of FSCService.search_fsc.
FSC_SEARCH_CAP == 100

\* ORDER BY COMPANY / ORDER BY FSC / ORDER BY FIIG_TITLE.
OrderByCompany(rows) ==
    OrderBy(rows, TextRanks([i \in 1..Len(rows) |-> COMPANY(rows[i])]))

\* Mutant: the rows are left in stored order.
OrderByFscLost(rows) == rows

OrderByFsc(rows) == OrderBy(rows, [i \in 1..Len(rows) |-> FSC(rows[i])])

OrderByFiigTitle(rows) ==
    OrderBy(rows, TextRanks([i \in 1..Len(rows) |-> FIIG_TITLE(rows[i])]))

\* Mutant: return results[0], which fails on an empty result.
get_by_code_unguarded(st, cage_code, fault) ==
    LET q == query(st, "P_CAGE", fault)
        results == SelectSeq(q.value,
                             LAMBDA r : CAGE_CODE(r) = Upper(cage_code))
    IN  IF q.raised \/ results = << >> THEN Raised
        ELSE Returned(<<results[1]>>)

\* Lines 67-73: CAGEService.get_by_code.
get_by_code(st, cage_code, fault) ==
    LET q == query(st, "P_CAGE", fault)
        results == SelectSeq(q.value,
                             LAMBDA r : CAGE_CODE(r) = Upper(cage_code))
    IN  IF q.raised THEN Raised ELSE Returned(FirstOrNone(results))

\* Lines 75-85: CAGEService.search.
cage_search(st, q, limit, offset, fault) ==
    LET search_term == Upper(q)
        r == query(st, "P_CAGE", fault)
        results ==
            SelectSeq(r.value,
                      LAMBDA row : \/ Like(Upper(COMPANY(row)), search_term)
                                   \/ Like(Upper(CITY(row)), search_term)
                                   \/ Like(CAGE_CODE(row), search_term))
    IN  IF r.raised THEN Raised
        ELSE Returned(Limit(OrderByCompany(results), limit, offset))

\* Lines 95-105: a filter that is None or empty adds no condition.
NoConditions(state, city, country) ==
    state = << >> /\ city = << >> /\ country = << >>

\* Lines 87-116: CAGEService.search_by_location.
search_by_location(st, state, city, country, limit, fault) ==
    LET r == query(st, "P_CAGE", fault)
        results ==
            SelectSeq(r.value,
                      LAMBDA row :
                          /\ state # << >> =>
                               Upper(STATE_PROVINCE(row)) = Upper(state)
                          /\ city # << >> =>
                               Like(Upper(CITY(row)), Upper(city))
                          /\ country # << >> =>
                               Like(Upper(COUNTRY(row)), Upper(country)))
    IN  IF NoConditions(state, city, country) THEN Returned(<< >>)
        ELSE IF r.raised THEN Raised
        ELSE Returned(Limit(OrderByCompany(results), limit, 0))

\* Lines 173-183 and 268-275: FSC = int(fsc), or, when int() fails,
\* CAST(FSC AS VARCHAR) = fsc.
FscIs(row, fsc) ==
    IF IsInt(fsc) THEN FSC(row) = IntOf(fsc) ELSE TextOf(FSC(row)) = fsc

\* Mutant: the code is compared as text whatever was passed.
FscMatchesAsText(row, fsc) == TextOf(FSC(row)) = fsc.text

\* Lines 173-183: the WHERE clause of get_fsc_by_code for a str or int
\* argument: FSC = int(fsc), or CAST(FSC AS VARCHAR) = fsc after ValueError.
FscMatches(row, fsc) ==
    IF ParsesAsInt(fsc) THEN FSC(row) = PyInt(fsc)
    ELSE TextOf(FSC(row)) = fsc.text

\* Lines 170-184: FSCService.get_fsc_by_code.
get_fsc_by_code(st, fsc, fault) ==
    LET r == query(st, "V_H2_FSC", fault)
        results == SelectSeq(r.value, LAMBDA row : FscMatches(row, fsc))
    IN  IF r.raised THEN Raised ELSE Returned(FirstOrNone(results))

\* Lines 199-218: FSCService.search_fsc.
search_fsc(st, q, fault) ==
    LET search_term == Upper(q)
        r == query(st, "V_H2_FSC", fault)
        results ==
            SelectSeq(r.value,
                      LAMBDA row :
                          \/ IsInt(q) /\ FSC(row) = IntOf(q)
                          \/ Like(Upper(FSC_TITLE(row)), search_term))
    IN  IF r.raised THEN Raised
        ELSE Returned(Limit(OrderByFsc(results), FSC_SEARCH_CAP, 0))

\* Lines 249-284: NSNService.search.
nsn_search(st, q, fsc, limit, offset, metaFault, fault) ==
    LET search_term == Upper(q)
        r == query(st, "P_FLIS_NSN", fault)
        results ==
            SelectSeq(r.value,
                      LAMBDA row :
                          /\ q # << >> =>
                               \/ Like(NIIN(row), search_term)
                               \/ Like(Upper(ITEM_NAME(row)), search_term)
                          /\ fsc # << >> => FscIs(row, fsc))
    IN  IF ~is_table_indexed(st, "P_FLIS_NSN", metaFault)
        THEN Returned(<< >>)
        ELSE IF r.raised THEN Raised
        ELSE Returned(Limit(results, limit, offset))

\* Lines 286-305: NSNService.get_by_fsc.
get_by_fsc(st, fsc, limit, offset, metaFault, fault) ==
    LET r == query(st, "P_FLIS_NSN", fault)
        results == SelectSeq(r.value, LAMBDA row : FscIs(row, fsc))
    IN  IF ~is_table_indexed(st, "P_FLIS_NSN", metaFault)
        THEN Returned(<< >>)
        ELSE IF r.raised THEN Raised
        ELSE Returned(Limit(results, limit, offset))

\* Lines 307-325: NSNService.get_management_data / get_characteristics on
\* their relation.
AuxiliaryData(st, table, niin, metaFault, fault) ==
    LET r == query(st, table, fault)
    IN  IF ~is_table_indexed(st, table, metaFault) THEN Returned(<< >>)
        ELSE IF r.raised THEN Raised
        ELSE Returned(SelectSeq(r.value, LAMBDA row : row.niin = niin))

get_management_data(st, niin, metaFault, fault) ==
    AuxiliaryData(st, "V_FLIS_MANAGEMENT", niin, metaFault, fault)

get_characteristics(st, niin, metaFault, fault) ==
    AuxiliaryData(st, "V_CHARACTERISTICS", niin, metaFault, fault)

\* Lines 334-340: ItemNameService.get_by_inc.
get_by_inc(st, inc, fault) ==
    LET r == query(st, "V_H6_NAME_INC", fault)
        results == SelectSeq(r.value, LAMBDA row : INC(row) = inc)
    IN  IF r.raised THEN Raised ELSE Returned(FirstOrNone(results))

\* Lines 342-352: ItemNameService.search.
item_name_search(st, q, limit, fault) ==
    LET search_term == Upper(q)
        r == query(st, "V_H6_NAME_INC", fault)
        results ==
            SelectSeq(r.value,
                      LAMBDA row :
                          \/ Like(Upper(FIIG_TITLE(row)), search_term)
                          \/ Like(Upper(DEFINITION(row)), search_term)
                          \/ Like(INC(row), search_term))
    IN  IF r.raised THEN Raised
        ELSE Returned(Limit(OrderByFiigTitle(results), limit, 0))

\* The categories of the unified search.
Categories == {"cage", "fsc", "nsn", "item_names"}

\* Mutant: an exception of a category's search leaves search_all.
CaughtNever(r) == r

\* Lines 383-404: try: results[c] = ...; except Exception: log.  The
\* category keeps its initial empty list.
Caught(r) == IF r.raised THEN Returned(<< >>) ELSE r

\* Mutant: the classification list is what search_fsc returns.
SliceWhole(rows, limit) == rows

\* Line 390: [:limit] for limit >= 0.
Slice(rows, limit) == Limit(rows, limit, 0)

\* Lines 373-406: UnifiedSearchService.search_all.  faults tells for every
\* category whether the engine fails on its query.
search_all(st, q, limit, faults) ==
    LET r_cage == Caught(cage_search(st, q, limit, 0, faults["cage"]))
        found == search_fsc(st, q, faults["fsc"])
        r_fsc == Caught(IF found.raised THEN Raised
                        ELSE Returned(Slice(found.value, limit)))
        r_nsn == Caught(nsn_search(st, q, << >>, limit, 0, FALSE,
                                   faults["nsn"]))
        r_inc == Caught(item_name_search(st, q, limit, faults["item_names"]))
    IN  IF r_cage.raised \/ r_fsc.raised \/ r_nsn.raised \/ r_inc.raised
        THEN Raised
        ELSE Returned([cage |-> r_cage.value, fsc |-> r_fsc.value,
                       nsn |-> r_nsn.value, item_names |-> r_inc.value])

(***************************************************************************)
(* Callers of the query services.                                          *)
(***************************************************************************)
\* The relations the services read.
ServiceTables ==
    {"P_CAGE", "V_H2_FSC", "P_FLIS_NSN", "FLISV", "V_H6_NAME_INC",
     "V_FLIS_MANAGEMENT", "V_CHARACTERISTICS"}

\* The arguments callers pass.
Terms == {<<"a">>, <<"b">>, <<"z">>, <<"1">>, TextOf(1095)}
Limits == 1..MaxLimit
CageCodes == {<<"a", "1">>, <<"A", "2">>, <<"A", "9">>}
FscCodes == {TextOf(1095), TextOf(1000), <<"a">>}
FscArgs == {Str(c) : c \in FscCodes} \cup {Num(1095), Num(1005), Num(1000)}
IncCodes == {<<"1", "1">>, <<"1", "9">>}
Filters == {<< >>, <<"a">>, <<"z">>}

\* Thread t calls a service; r is what the call gives back.
Call(t, op, args, faults, r) ==
    /\ top[t].op = "idle"
    /\ top' = [top EXCEPT ![t] = [op |-> op]]
    /\ svc' = [svc EXCEPT ![t] =
                 [op |-> op, args |-> args, faults |-> faults,
                  raised |-> r.raised, value |-> r.value,
                  error |-> IF r.raised THEN "engine" ELSE "none"]]
    /\ UNCHANGED <<files, store, csv, prev, sweep, nsn, cls, getdb>>

\* The caller takes the value or the exception.
ServiceDone(t) ==
    /\ svc[t].op # "none"
    /\ top' = [top EXCEPT ![t] = Idle]
    /\ svc' = [svc EXCEPT ![t] = NoSvc]
    /\ UNCHANGED <<files, store, csv, prev, sweep, nsn, cls, getdb>>

\* db.query(sql) on one relation, catalogued and loaded or not.
DbQuery(t) ==
    \E table \in ServiceTables \cup {"NO_SUCH_TABLE"}, fault \in BOOLEAN :
        Call(t, "query", [table |-> table], [query |-> fault],
             query(store, table, fault))

GetByCode(t) ==
    \E code \in CageCodes, fault \in BOOLEAN :
        Call(t, "get_by_code", [key |-> code], [query |-> fault],
             get_by_code(store, code, fault))

SearchByLocation(t) ==
    \E state \in Filters, city \in Filters, country \in Filters,
       limit \in Limits, fault \in BOOLEAN :
        Call(t, "search_by_location",
             [state |-> state, city |-> city, country |-> country,
              limit |-> limit],
             [query |-> fault],
             search_by_location(store, state, city, country, limit, fault))

\* api.py lines 215-232: the handler answers 400 when no filter is given
\* and calls the service otherwise.
SearchCageByLocation(t) ==
    /\ top[t].op = "idle"
    /\ \E state \in Filters, city \in Filters, country \in Filters,
          limit \in Limits, fault \in BOOLEAN :
         LET r == search_by_location(store, state, city, country, limit,
                                     fault)
             refused == NoConditions(state, city, country)
         IN  svc' = [svc EXCEPT ![t] =
                       [op |-> "search_cage_by_location",
                        args |-> [state |-> state, city |-> city,
                                  country |-> country, limit |-> limit],
                        faults |-> [query |-> fault],
                        raised |-> refused \/ r.raised,
                        value |-> IF refused THEN << >> ELSE r.value,
                        error |-> IF refused THEN "http400"
                                  ELSE IF r.raised THEN "engine"
                                  ELSE "none"]]
    /\ top' = [top EXCEPT ![t] = [op |-> "search_cage_by_location"]]
    /\ UNCHANGED <<files, store, csv, prev, sweep, nsn, cls, getdb>>

GetFscByCode(t) ==
    \E code \in FscArgs, fault \in BOOLEAN :
        Call(t, "get_fsc_by_code", [key |-> code], [query |-> fault],
             get_fsc_by_code(store, code, fault))

GetByInc(t) ==
    \E code \in IncCodes, fault \in BOOLEAN :
        Call(t, "get_by_inc", [key |-> code], [query |-> fault],
             get_by_inc(store, code, fault))

NsnSearch(t) ==
    \E q \in Terms, fsc \in {<< >>, TextOf(1095)}, limit \in Limits,
       metaFault \in BOOLEAN, fault \in BOOLEAN :
        Call(t, "nsn_search", [q |-> q, fsc |-> fsc, limit |-> limit],
             [indexed |-> metaFault, query |-> fault],
             nsn_search(store, q, fsc, limit, 0, metaFault, fault))

GetByFsc(t) ==
    \E fsc \in FscCodes, limit \in Limits,
       metaFault \in BOOLEAN, fault \in BOOLEAN :
        Call(t, "get_by_fsc", [fsc |-> fsc, limit |-> limit],
             [indexed |-> metaFault, query |-> fault],
             get_by_fsc(store, fsc, limit, 0, metaFault, fault))

GetManagementData(t) ==
    \E niin \in Niins, metaFault \in BOOLEAN, fault \in BOOLEAN :
        Call(t, "get_management_data", [niin |-> niin],
             [indexed |-> metaFault, query |-> fault],
             get_management_data(store, niin, metaFault, fault))

GetCharacteristics(t) ==
    \E niin \in Niins, metaFault \in BOOLEAN, fault \in BOOLEAN :
        Call(t, "get_characteristics", [niin |-> niin],
             [indexed |-> metaFault, query |-> fault],
             get_characteristics(store, niin, metaFault, fault))

SearchAll(t) ==
    \E q \in Terms, limit \in Limits, faults \in [Categories -> BOOLEAN] :
        Call(t, "search_all", [q |-> q, limit |-> limit], faults,
             search_all(store, q, limit, faults))

\* Any subset of the services' relations is loaded, each from the latest
\* version of its file.
InitServices ==
    /\ HandleReady
    /\ files = [t \in Tables |->
                  [exists |-> TRUE, lines |-> Content(t, MaxVersion)]]
    /\ \E loaded \in SUBSET ServiceTables :
         store = [t \in ServiceTables |->
                    IF t \in loaded
                    THEN Loaded(ReadCsvAuto(Content(t, MaxVersion)))
                    ELSE Absent]
    /\ csv = [t \in Threads |-> NoCsv]
    /\ top = [t \in Threads |-> Idle]
    /\ prev = NoPrev
    /\ sweep = [t \in Threads |-> NoSweep]
    /\ nsn = [t \in Threads |-> NoNsn]

\* One caller at a time asks the services; nothing is being loaded.
NextServices ==
    \/ DbQuery("main")
    \/ GetByCode("main")
    \/ SearchByLocation("main")
    \/ SearchCageByLocation("main")
    \/ GetFscByCode("main")
    \/ GetByInc("main")
    \/ NsnSearch("main")
    \/ GetByFsc("main")
    \/ GetManagementData("main")
    \/ GetCharacteristics("main")
    \/ SearchAll("main")
    \/ ServiceDone("main")
    \/ GetByNiin("main")
    \/ NsnStep("main")

SpecServices == InitServices /\ [][NextServices]_vars

(***************************************************************************)
(* data_loader.py: the classification service's group and class listings   *)
(* and ItemNameService.get_all; database.py: get_table_info.               *)
(***************************************************************************)
\* CAST(a / b AS INTEGER) for a >= 0 and b > 0.  The repository pins no
\* engine version: an engine whose / on integers is integer division gives
\* the quotient; an engine whose / is floating-point division gives a / b
\* as a double, which the cast rounds to the nearest integer (halves to the
\* even one).
DivideCastInteger(a, b, integer_division) ==
    LET q == a \div b
        twice == 2 * (a % b)
    IN  IF integer_division THEN q
        ELSE IF twice > b \/ (twice = b /\ q % 2 = 1) THEN q + 1
        ELSE q

\* SELECT DISTINCT: every value once, at its first place.
Distinct(seq) ==
    LET firsts == {i \in 1..Len(seq) :
                      \A j \in 1..(i - 1) : seq[j] # seq[i]}
    IN  [k \in 1..Cardinality(firsts) |->
            seq[CHOOSE i \in firsts :
                    Cardinality({j \in firsts : j < i}) = k - 1]]

\* Lines 151-161: FSCService.get_all_fsg.
get_all_fsg(st, integer_division, fault) ==
    LET r == query(st, "V_H2_FSG", fault)
        groups == Distinct([i \in 1..Len(r.value) |->
                     [FSG |-> DivideCastInteger(FSC(r.value[i]), 100,
                                                integer_division),
                      FSG_TITLE |-> FSG_TITLE(r.value[i])]])
    IN  IF r.raised THEN Raised
        ELSE Returned(OrderBy(groups,
                              [i \in 1..Len(groups) |-> groups[i].FSG]))

\* Lines 186-197: FSCService.get_fsc_by_fsg.
get_fsc_by_fsg(st, fsg, fault) ==
    LET r == query(st, "V_H2_FSC", fault)
        fsg_int == PyInt(fsg)
        results == SelectSeq(r.value,
                             LAMBDA row : /\ FSC(row) >= fsg_int * 100
                                          /\ FSC(row) < (fsg_int + 1) * 100)
    IN  IF ~ParsesAsInt(fsg) THEN Returned(<< >>)
        ELSE IF r.raised THEN Raised
        ELSE Returned(OrderByFsc(results))

\* Lines 354-360: ItemNameService.get_all.
get_all(st, limit, fault) ==
    LET r == query(st, "V_H6_NAME_INC", fault)
    IN  IF r.raised THEN Raised
        ELSE Returned(Limit(OrderByFiigTitle(r.value), limit, 0))

\* database.py line 56: the engine's own relation of its tables, which
\* is_table_indexed reads.
SystemRelations == {"information_schema.tables"}

\* What the engine resolves a name in a FROM or DESCRIBE to: a table it
\* holds, or a relation of its own.
Resolves(st, name) ==
    \/ name \in DOMAIN st /\ st[name].exists
    \/ name \in SystemRelations

\* DESCRIBE name: the columns the services use, with the types
\* read_csv_auto gives them.
Describe(name) ==
    CASE name = "V_H2_FSC" ->
            <<[name |-> "FSC", type |-> "BIGINT"],
              [name |-> "FSC_TITLE", type |-> "VARCHAR"]>>
      [] name = "V_H2_FSG" ->
            <<[name |-> "FSC", type |-> "BIGINT"],
              [name |-> "FSG_TITLE", type |-> "VARCHAR"]>>
      [] name = "V_H6_NAME_INC" ->
            <<[name |-> "INC", type |-> "VARCHAR"],
              [name |-> "FIIG_TITLE", type |-> "VARCHAR"],
              [name |-> "DEFINITION", type |-> "VARCHAR"]>>
      [] OTHER -> <<[name |-> "table_name", type |-> "VARCHAR"]>>

\* SELECT COUNT(*) FROM name.
CountRows(st, name) ==
    IF name \in SystemRelations
    THEN Cardinality({t \in DOMAIN st : st[t].exists})
    ELSE Len(st[name].rows)

\* Lines 198-221: PubLogDatabase.get_table_info; whatever one of its two
\* statements raises is logged and {} is returned.
get_table_info(st, table_name, fault) ==
    IF fault \/ ~Resolves(st, table_name) THEN EmptyDict
    ELSE [table_name |-> table_name,
          row_count |-> CountRows(st, table_name),
          columns |-> Describe(table_name)]

\* A piece of a statement's text: written in the source, or the value of
\* an argument of the call pasted in by an f-string.
Literal(text) == [origin |-> "literal", text |-> text]

Pasted(argument) == [origin |-> "argument", text |-> argument]

\* A statement as it is handed to execute: its text, piece by piece, and
\* the arguments of the call its bound parameters are made from.
Statement(text, params) == [text |-> text, params |-> params]

\* The statements a call hands to the engine: database.py lines 202-209 and
\* data_loader.py lines 155-161, 175-183, 191-195 and 356-360.
Statements(op, args) ==
    CASE op \in {"get_table_info", "api_get_table_info"} ->
            <<Statement(<<Literal("DESCRIBE "), Pasted("table_name")>>,
                        << >>),
              Statement(<<Literal("SELECT COUNT(*) FROM "),
                          Pasted("table_name")>>, << >>)>>
      [] op = "get_all_fsg" ->
            <<Statement(<<Literal("SELECT DISTINCT CAST(FSC / 100 AS INTEGER) as FSG, FSG_TITLE FROM V_H2_FSG ORDER BY FSG")>>,
                        << >>)>>
      [] op = "get_fsc_by_code" ->
            IF ParsesAsInt(args.key)
            THEN <<Statement(<<Literal("SELECT * FROM V_H2_FSC WHERE FSC = ? LIMIT 1")>>,
                             <<"key">>)>>
            ELSE <<Statement(<<Literal("SELECT * FROM V_H2_FSC WHERE CAST(FSC AS VARCHAR) = ? LIMIT 1")>>,
                             <<"key">>)>>
      [] op = "get_fsc_by_fsg" ->
            IF ParsesAsInt(args.fsg)
            THEN <<Statement(<<Literal("SELECT * FROM V_H2_FSC WHERE FSC >= ? AND FSC < ? ORDER BY FSC")>>,
                             <<"fsg", "fsg">>)>>
            ELSE << >>
      [] op = "get_all" ->
            <<Statement(<<Literal("SELECT * FROM V_H6_NAME_INC ORDER BY FIIG_TITLE LIMIT "),
                          Pasted("limit")>>, << >>)>>

\* The relations these calls read.
ClassTables == {"V_H2_FSC", "V_H2_FSG", "V_H6_NAME_INC"}

\* The arguments callers pass.
FsgArgs == {Str(<<"1", "0">>), Str(<<"0", "9">>), Str(<<"a">>),
            Str(<< >>), Num(10), Num(9)}
TableNames == ClassTables \cup {"NO_SUCH_TABLE"} \cup SystemRelations

GetAllFsg(t) ==
    \E integer_division \in BOOLEAN, fault \in BOOLEAN :
        Call(t, "get_all_fsg", << >>,
             [query |-> fault, integer_division |-> integer_division],
             get_all_fsg(store, integer_division, fault))

GetFscByFsg(t) ==
    \E fsg \in FsgArgs, fault \in BOOLEAN :
        Call(t, "get_fsc_by_fsg", [fsg |-> fsg], [query |-> fault],
             get_fsc_by_fsg(store, fsg, fault))

GetAll(t) ==
    \E limit \in Limits, fault \in BOOLEAN :
        Call(t, "get_all", [limit |-> limit], [query |-> fault],
             get_all(store, limit, fault))

\* A caller asks the handle for a description (pages/5_Admin.py).
GetTableInfo(t) ==
    \E table_name \in TableNames, fault \in BOOLEAN :
        Call(t, "get_table_info", [table_name |-> table_name],
             [query |-> fault],
             Returned(get_table_info(store, table_name, fault)))

\* api.py lines 157-169: the handler of GET /tables/{table_name}/info
\* answers 404 when the description is empty.
ApiGetTableInfo(t) ==
    \E table_name \in TableNames, fault \in BOOLEAN :
        LET info == get_table_info(store, table_name, fault)
        IN  /\ top[t].op = "idle"
            /\ top' = [top EXCEPT ![t] = [op |-> "api_get_table_info"]]
            /\ svc' = [svc EXCEPT ![t] =
                         [op |-> "api_get_table_info",
                          args |-> [table_name |-> table_name],
                          faults |-> [query |-> fault],
                          raised |-> info = EmptyDict,
                          value |-> info,
                          error |-> IF info = EmptyDict THEN "http404"
                                    ELSE "none"]]
            /\ UNCHANGED <<files, store, csv, prev, sweep, nsn, cls, getdb>>

\* Each relation is absent or loaded from some version of its file.
InitClasses ==
    /\ HandleReady
    /\ files = [t \in Tables |->
                  [exists |-> TRUE, lines |-> Content(t, MaxVersion)]]
    /\ \E version \in [ClassTables -> 0..MaxVersion] :
         store = [t \in ClassTables |->
                    IF version[t] = 0 THEN Absent
                    ELSE Loaded(ReadCsvAuto(Content(t, version[t])))]
    /\ csv = [t \in Threads |-> NoCsv]
    /\ top = [t \in Threads |-> Idle]
    /\ prev = NoPrev
    /\ sweep = [t \in Threads |-> NoSweep]
    /\ nsn = [t \in Threads |-> NoNsn]

\* One caller at a time; nothing is being loaded.
NextClasses ==
    \/ GetAllFsg("main")
    \/ GetFscByCode("main")
    \/ GetFscByFsg("main")
    \/ GetAll("main")
    \/ GetTableInfo("main")
    \/ ApiGetTableInfo("main")
    \/ ServiceDone("main")

SpecClasses == InitClasses /\ [][NextClasses]_vars

(***************************************************************************)
(* Callers that never force: single-table loads and sweeps with            *)
(* force=False, one after the other, while source files change.            *)
(***************************************************************************)
\* No call of these behaviours passes force=True, so line 87 is never
\* reached.
NextPlain ==
    \/ EnvChange
    \/ DirectCall("main", CallTables, {FALSE})
    \/ DirectReturn("main")
    \/ StartSweep("main", {FALSE}, BOOLEAN)
    \/ CsvExists("main")
    \/ CsvIsIndexed("main")
    \/ CsvStat("main")
    \/ CsvCreate("main")
    \/ CsvCount("main")
    \/ SweepStep("main")

SpecPlain == Init /\ [][NextPlain]_vars

(***************************************************************************)
(* data_loader.py: DataLoader._create_search_indexes and database.py:      *)
(* PubLogDatabase.create_indexes, column by column.                        *)
(***************************************************************************)
\* data_loader.py lines 46-54: the columns listed for a mapped table.
index_columns(table) ==
    CASE table = "P_CAGE" -> <<"CAGE_CODE", "COMPANY", "CITY", "STATE_PROVINCE">>
      [] table = "V_H2_FSC" -> <<"FSC", "FSC_TITLE">>
      [] table = "V_H2_FSG" -> <<"FSG", "FSG_TITLE">>
      [] table = "V_H6_NAME_INC" -> <<"INC", "FIIG_TITLE">>
      [] table = "V_FLIS_IDENTIFICATION" -> <<"NIIN", "FSC", "ITEM_NAME">>
      [] table = "P_FLIS_NSN" -> <<"NIIN", "FSC">>
      [] table = "FLISV" -> <<"NIIN", "FSC">>

\* Mutant: create_indexes has no except clause.
CreateIndexEscapes(failed) == failed

\* database.py lines 124-125: what CREATE INDEX raises is caught and logged;
\* TRUE when an exception leaves create_indexes.
CreateIndexRaises(failed) == FALSE

\* database.py lines 115-125: create_indexes(table, columns) with the engine
\* failing on the columns in failing: the CREATE INDEX statements executed,
\* in order, and whether an exception left the loop.
create_indexes(table, columns, failing) ==
    LET escapes == {i \in 1..Len(columns) :
                       CreateIndexRaises(columns[i] \in failing)}
        last == IF escapes = {} THEN Len(columns)
                ELSE CHOOSE i \in escapes : \A j \in escapes : i <= j
    IN  [raised |-> escapes # {},
         value |-> [i \in 1..last |->
                      [table |-> table, column |-> columns[i],
                       created |-> columns[i] \notin failing]]]

RECURSIVE SearchIndexesFrom(_, _, _, _)
\* data_loader.py lines 56-58 from the i-th mapped table on.
SearchIndexesFrom(st, i, unreadable, failing) ==
    IF i > Len(index_definitions) THEN Returned(<< >>)
    ELSE LET table == index_definitions[i]
             here == IF is_table_indexed(st, table, table \in unreadable)
                     THEN create_indexes(table, index_columns(table), failing)
                     ELSE Returned(<< >>)
             rest == SearchIndexesFrom(st, i + 1, unreadable, failing)
         IN  IF here.raised THEN here
             ELSE [raised |-> rest.raised, value |-> here.value \o rest.value]

\* data_loader.py lines 44-58: DataLoader._create_search_indexes, with the
\* lookup of is_table_indexed failing for the tables in unreadable and
\* CREATE INDEX failing on the columns in failing.
create_search_indexes(st, unreadable, failing) ==
    SearchIndexesFrom(st, 1, unreadable, failing)

\* The columns on which the engine may fail.
IndexedColumns ==
    UNION {Range(index_columns(index_definitions[i])) :
             i \in 1..Len(index_definitions)}

\* A caller builds the search indexes.  No statement of the call changes a
\* relation.
CreateSearchIndexes(t) ==
    \E unreadable \in {{}} \cup {{index_definitions[i]} :
                                   i \in 1..Len(index_definitions)},
       failing \in SUBSET IndexedColumns :
        Call(t, "create_search_indexes", << >>,
             [unreadable |-> unreadable, failing |-> failing],
             create_search_indexes(store, unreadable, failing))

\* Index building on any set of loaded relations.
NextIndexes ==
    \/ CreateSearchIndexes("main")
    \/ ServiceDone("main")

SpecIndexes == InitServices /\ [][NextIndexes]_vars

(***************************************************************************)
(* Properties of index_csv_file called by a single caller (Spec).          *)
(***************************************************************************)
\* A thread stands at the return of an index_csv_file call it made directly.
AtDirectReturn(t) == top[t].op = "index_csv_file" /\ csv[t].pc = "ret"

\* The call at its return directly follows a call of the same thread with
\* the same table and the same force that returned True.
RepeatsSuccess(t, force) ==
    /\ AtDirectReturn(t)
    /\ csv[t].force = force
    /\ prev.valid /\ prev.table = csv[t].table
    /\ prev.force = force /\ prev.ret

\* The number of well-formed lines of a file.
WellFormedCount(file) ==
    Cardinality({i \in 1..Len(file.lines) : file.lines[i].ok})

\* C1 (idempotent load): when index_csv_file(T, path, force=False) directly
\* follows a call index_csv_file(T, path, force=False) that returned True,
\* the second call leaves every relation exactly as it found it, and it
\* returns True as well whenever the source file is still there and the
\* engine's table lookup answers.
C1_IdempotentLoad ==
    \A t \in Threads :
        RepeatsSuccess(t, FALSE) =>
            /\ store = csv[t].store0
            /\ store[csv[t].table].exists
            /\ (~csv[t].missing /\ ~csv[t].metaFault => csv[t].ret)

C1_Witness ==
    \E t \in Threads :
        /\ RepeatsSuccess(t, FALSE)
        /\ csv[t].ret
        /\ Len(store[csv[t].table].rows) = MaxVersion

\* C2 (forced reload replaces): at the return of every index_csv_file(T,
\* path, force=True) whose source file exists and during which the engine
\* did not fail, the first such call and any later one, the call returns
\* True and relation T holds exactly the well-formed rows of the source
\* file, as many as the file has, whatever T held before.
C2_ForcedReloadReplaces ==
    \A t \in Threads :
        (/\ AtDirectReturn(t) /\ csv[t].force
         /\ ~csv[t].missing /\ ~csv[t].fault) =>
            LET tbl == csv[t].table
            IN  /\ csv[t].ret
                /\ store[tbl].exists
                /\ Len(store[tbl].rows) = WellFormedCount(files[tbl])
                /\ \A i \in 1..Len(store[tbl].rows) :
                       /\ store[tbl].rows[i].ok
                       /\ store[tbl].rows[i] = files[tbl].lines[i + 1]

\* A second forced reload in a row, over a relation loaded from another
\* version of the file.
C2_Witness ==
    \E t \in Threads :
        /\ RepeatsSuccess(t, TRUE)
        /\ csv[t].ret
        /\ csv[t].store0[csv[t].table].exists
        /\ csv[t].store0[csv[t].table] # store[csv[t].table]

\* The call of thread t returned False because a statement of its try block
\* raised.
FailedByError(t) ==
    /\ AtDirectReturn(t)
    /\ ~csv[t].ret
    /\ csv[t].raisedAt \in {"drop", "create", "count"}

\* C3 as claimed: whenever index_csv_file(T, ...) returns False because the
\* engine raised during the load attempt, relation T does not exist
\* afterwards.
C3_FailedLoadLeavesAbsent ==
    \A t \in Threads :
        FailedByError(t) => ~store[csv[t].table].exists

\* C3 as amended: with a single loader, when index_csv_file(T, ...) returns
\* False because a statement raised, T is never partly filled: it is absent,
\* or it is the relation the call found, or it holds all well-formed rows
\* of the file.  It is absent when CREATE TABLE raised after the relation
\* was dropped or correctly found absent; it is the old relation when DROP
\* raised; it is the complete new relation when only the row count raised.
C3_FailedLoadNeverPartial ==
    \A t \in Threads :
        FailedByError(t) =>
            LET tbl == csv[t].table
                old == csv[t].store0[tbl]
                new == Loaded(ReadCsvAuto(files[tbl].lines))
            IN  /\ store[tbl] \in {Absent, old, new}
                /\ \A u \in Tables \ {tbl} : store[u] = csv[t].store0[u]
                /\ (csv[t].raisedAt = "create"
                      /\ (csv[t].force \/ ~csv[t].metaFault)
                    => store[tbl] = Absent)
                /\ (csv[t].raisedAt = "drop" => store[tbl] = old)
                /\ (csv[t].raisedAt = "count" => store[tbl] = new)

\* A forced reload of a loaded relation fails in CREATE TABLE.
C3_Witness ==
    \E t \in Threads :
        /\ FailedByError(t)
        /\ csv[t].raisedAt = "create"
        /\ csv[t].force
        /\ csv[t].store0[csv[t].table].exists
        /\ store[csv[t].table] = Absent

\* C4 (missing source): when the source file of T does not exist,
\* index_csv_file(T, path, force) returns False, by a return and not by an
\* exception, and every relation is as the call found it, for both values of
\* force.
C4_MissingSourceIsNoOp ==
    \A t \in Threads :
        (csv[t].pc \in {"ret", "raise"} /\ ~files[csv[t].table].exists) =>
            /\ csv[t].pc = "ret"
            /\ csv[t].missing
            /\ ~csv[t].ret
            /\ store = csv[t].store0

\* A forced call for a loaded relation whose file has been removed.
C4_Witness ==
    \E t \in Threads :
        /\ AtDirectReturn(t)
        /\ csv[t].missing /\ csv[t].force
        /\ store[csv[t].table].exists

(***************************************************************************)
(* Properties of a sweep run by a single caller (SpecSweep).               *)
(***************************************************************************)
\* The names of the events of kind ev in a log whose name is in names, in
\* log order.
EventNames(log, ev, names) ==
    LET sel == SelectSeq(log, LAMBDA e : e.ev = ev /\ e.name \in names)
    IN  [i \in 1..Len(sel) |-> sel[i].name]

\* How often index_csv_file was entered for a name.
TimesAttempted(log, name) ==
    Cardinality({i \in 1..Len(log) : log[i].ev = "start" /\ log[i].name = name})

\* What the first finished attempt for a name returned.
FirstResult(log, name) ==
    LET ends == {i \in 1..Len(log) : log[i].ev = "end" /\ log[i].name = name}
    IN  log[CHOOSE i \in ends : \A j \in ends : i <= j].ok

\* The tier function of thread t has run its loop to the end and is about
\* to return its dict.
AtTierReturn(t) ==
    /\ sweep[t].phase \in {"priority", "large"}
    /\ csv[t].pc = "none"
    /\ sweep[t].idx > Len(StageList(sweep[t].phase))

\* The tier list of the source with the names outside the catalog left out.
CataloguedTier(phase) ==
    SelectSeq(StageList(phase), LAMBDA n : n \in Range(get_all_data_files))

\* C5 (per-table fault isolation in a tier): when index_priority_tables or
\* index_large_tables returns, index_csv_file has been entered for every
\* catalogued name of the tier, once each and in list order, also after a
\* table that failed; the returned dict has exactly these names as keys, maps
\* each to what its call returned, and maps a table without source file to
\* False.
C5_TierFaultIsolation ==
    \A t \in Threads :
        AtTierReturn(t) =>
            LET tier == CataloguedTier(sweep[t].phase)
                names == Range(tier)
            IN  /\ EventNames(sweep[t].log, "start", names) = tier
                /\ EventNames(sweep[t].log, "end", names) = tier
                /\ DOMAIN sweep[t].tier = names
                /\ \A n \in names :
                       /\ sweep[t].tier[n] = FirstResult(sweep[t].log, n)
                       /\ (~files[n].exists => ~sweep[t].tier[n])

\* A tier returns after its first table failed and a later one loaded.
C5_Witness ==
    \E t \in Threads :
        /\ AtTierReturn(t)
        /\ LET tier == CataloguedTier(sweep[t].phase)
           IN  /\ Len(tier) >= 2
               /\ ~sweep[t].tier[tier[1]]
               /\ sweep[t].tier[tier[Len(tier)]]
               /\ store[tier[Len(tier)]].exists

\* 1 for a name of PRIORITY_TABLES, 2 for a name of LARGE_TABLES, 3 for an
\* untiered name.
TierRank(name) ==
    IF name \in Range(PRIORITY_TABLES) THEN 1
    ELSE IF name \in Range(LARGE_TABLES) THEN 2 ELSE 3

\* Thread t runs index_all_tables (initialize_database without priority_only).
InFullSweep(t) ==
    top[t].op = "initialize_database" /\ ~top[t].priority_only

\* C6 (sweep ordering): at every moment of an index_all_tables sweep, the
\* attempts made so far are strictly sequential (each attempt ends before
\* the next starts, so at most one is in progress) and in tier order: every
\* event of a priority table precedes every event of a large table, which
\* precedes every event of an untiered table.
C6_SweepOrdering ==
    \A t \in Threads :
        InFullSweep(t) =>
            LET log == sweep[t].log
            IN  /\ \A i \in 1..Len(log) :
                       /\ log[i].ev = (IF i % 2 = 1 THEN "start" ELSE "end")
                       /\ (i % 2 = 0 => log[i].name = log[i - 1].name)
                /\ \A i \in 1..Len(log) : \A j \in i..Len(log) :
                       TierRank(log[i].name) <= TierRank(log[j].name)
                /\ (csv[t].pc # "none" <=> Len(log) % 2 = 1)
                /\ (csv[t].pc # "none" => csv[t].table = log[Len(log)].name)

\* A full sweep has attempted tables of all three tiers.
C6_Witness ==
    \E t \in Threads :
        /\ InFullSweep(t)
        /\ sweep[t].phase = "indexes"
        /\ {TierRank(sweep[t].log[i].name) : i \in 1..Len(sweep[t].log)}
             = {1, 2, 3}

\* C7 (exactly once per sweep): during an index_all_tables sweep no name is
\* attempted twice and every recorded entry is what the name's one attempt
\* returned (no later tier or remainder pass has overwritten it); when
\* index_all_tables has returned, every catalog name has been attempted
\* exactly once and the report has exactly the catalog names as keys.
C7_ExactlyOncePerSweep ==
    \A t \in Threads :
        InFullSweep(t) =>
            LET log == sweep[t].log
                recorded == DictUpdate(sweep[t].results, sweep[t].tier)
            IN  /\ \A n \in Tables : TimesAttempted(log, n) <= 1
                /\ \A n \in DOMAIN recorded : recorded[n] = FirstResult(log, n)
                /\ \A n \in DOMAIN sweep[t].results :
                       sweep[t].results[n] = FirstResult(log, n)
                /\ (sweep[t].phase \in {"indexes", "done"} /\ ~sweep[t].raised
                    => /\ \A n \in Tables : TimesAttempted(log, n) = 1
                       /\ DOMAIN sweep[t].results = Tables)

\* A full sweep has returned a report with failed and loaded tables.
C7_Witness ==
    \E t \in Threads :
        /\ InFullSweep(t)
        /\ sweep[t].phase = "indexes"
        /\ \E n \in Tables : sweep[t].results[n]
        /\ \E n \in Tables : ~sweep[t].results[n]

\* initialize_database of thread t has ended.
SweepEnded(t) ==
    top[t].op = "initialize_database" /\ sweep[t].phase = "done"

\* C8 (partial sweep failure): initialize_database ends by returning its
\* report, never by an exception, whichever tables failed; in the report,
\* total is the number of tables attempted, indexed the number of attempts
\* that returned True, details the per-table results, success holds exactly
\* when indexed = total, and indexed < total when a table failed.
C8_PartialSweepReport ==
    \A t \in Threads :
        SweepEnded(t) =>
            LET log == sweep[t].log
                rep == sweep[t].report
                attempted == {i \in 1..Len(log) : log[i].ev = "start"}
                succeeded == {i \in 1..Len(log) : log[i].ev = "end" /\ log[i].ok}
                failed == {i \in 1..Len(log) : log[i].ev = "end" /\ ~log[i].ok}
            IN  /\ ~sweep[t].raised
                /\ rep.total = Cardinality(attempted)
                /\ rep.indexed = Cardinality(succeeded)
                /\ rep.details = sweep[t].results
                /\ \A n \in DOMAIN rep.details :
                       rep.details[n] = FirstResult(log, n)
                /\ (rep.success <=> rep.indexed = rep.total)
                /\ (failed # {} => rep.indexed < rep.total /\ ~rep.success)

\* A sweep ends with some tables failed and some loaded.
C8_Witness ==
    \E t \in Threads :
        /\ SweepEnded(t)
        /\ ~sweep[t].raised
        /\ sweep[t].report.indexed > 0
        /\ sweep[t].report.indexed < sweep[t].report.total
        /\ ~sweep[t].report.success

(***************************************************************************)
(* Properties of concurrent callers (SpecReaders, SpecLoaders).            *)
(***************************************************************************)
\* C9 (atomic replacement seen by readers): whatever a statement of a
\* concurrent get_by_niin finds of relation T while index_csv_file(T,
\* force=True) is replacing a loaded T, it is a relation that exists and
\* holds either the complete old rows or the complete new rows.
C9_ReadersSeeOldOrNew ==
    \A t \in Threads :
        \A o \in nsn[t].obs :
            o.seen.exists /\ o.seen \in {o.old, o.new}

\* Two forced index_csv_file calls for the same table, with the source file
\* in place and no failure of the engine's own, have both come to their end.
BothForcedReloadsEnded ==
    /\ \A t \in {"main", "second"} :
          /\ top[t].op = "index_csv_file"
          /\ csv[t].pc \in {"ret", "raise"}
          /\ csv[t].force
          /\ ~csv[t].missing /\ ~csv[t].fault /\ ~csv[t].metaFault
    /\ csv["main"].table = csv["second"].table

\* C10 (forced reloads of one relation are serialized): when two
\* index_csv_file(T, force=True) calls run concurrently, then in every
\* interleaving both return True and T ends loaded with exactly the rows of
\* the source file, as if one call had run wholly before the other.
C10_ForcedReloadsSerialized ==
    BothForcedReloadsEnded =>
        LET tbl == csv["main"].table
        IN  /\ csv["main"].pc = "ret" /\ csv["main"].ret
            /\ csv["second"].pc = "ret" /\ csv["second"].ret
            /\ store[tbl] = Loaded(ReadCsvAuto(files[tbl].lines))

\* The non-forced sweep of thread t has its report.
SweepReported(t) ==
    /\ top[t].op = "initialize_database"
    /\ ~top[t].force
    /\ sweep[t].phase = "done"
    /\ ~sweep[t].raised

\* C11 (re-triggering mid-sweep is safe): when two non-forced
\* initialize_database sweeps overlap, then once both have finished every
\* table whose source file exists and in whose loading the engine did not
\* fail is True in both reports and is a loaded relation.
C11_RetriggeredSweepSafe ==
    (SweepReported("main") /\ SweepReported("second")) =>
        \A name \in DOMAIN sweep["main"].report.details
                     \cap DOMAIN sweep["second"].report.details :
            (/\ files[name].exists
             /\ name \notin sweep["main"].faulted \cup sweep["second"].faulted)
            => /\ sweep["main"].report.details[name]
               /\ sweep["second"].report.details[name]
               /\ store[name].exists

(***************************************************************************)
(* Properties of the handle (SpecHandle, SpecHandles).                     *)
(***************************************************************************)
\* A get_db() call of thread t is about to hand its result to the caller
\* after an earlier call returned and no close() came since.
AtRepeatedGetDb(t) ==
    /\ top[t].op = "get_db"
    /\ getdb[t].pc = "ret"
    /\ cls.returned # {}

\* C12 (singleton handle): a get_db() that follows another with no close()
\* between them returns the same handle object as the earlier one, and it
\* does not open an engine connection.
C12_SingletonHandle ==
    \A t \in Threads :
        AtRepeatedGetDb(t) =>
            /\ cls.returned = {getdb[t].self}
            /\ getdb[t].self # 0
            /\ ~getdb[t].connected

\* A repeated call returns after a handle was closed and opened again.
C12_Witness ==
    /\ AtRepeatedGetDb("main")
    /\ cls.closed # {}
    /\ cls.made[getdb["main"].self] # 0

\* C13 (the handle tolerates concurrent callers): when several threads call
\* get_db() at once and no handle exists yet, exactly one PubLogDatabase
\* instance is created, exactly one engine connection is opened and every
\* caller receives that instance.
C13_OneInstanceOneConnection ==
    /\ Len(cls.made) <= 1
    /\ cls.opened <= 1
    /\ cls.held \subseteq {1}

(***************************************************************************)
(* Properties of NSNService.get_by_niin with one caller (SpecLookup).      *)
(***************************************************************************)
\* A get_by_niin call of thread t has ended and the engine did not fail on
\* any of its statements.
AtLookupEnd(t) ==
    /\ top[t].op = "get_by_niin"
    /\ nsn[t].pc \in {"ret", "raise"}
    /\ ~nsn[t].fault

\* Relation table is loaded and holds a row with key k.
HasKey(table, k) ==
    /\ store[table].exists
    /\ \E i \in 1..Len(store[table].rows) : store[table].rows[i].niin = k

\* The call of thread t returned a row of relation table with key k.
ReturnedFrom(t, table, k) ==
    /\ nsn[t].pc = "ret"
    /\ Len(nsn[t].result) = 1
    /\ nsn[t].result[1].tbl = table
    /\ nsn[t].result[1].niin = k
    /\ \E i \in 1..Len(store[table].rows) :
          store[table].rows[i] = nsn[t].result[1]

\* C14 (stock-number fallback chain): get_by_niin(k) returns the primary
\* P_FLIS_NSN record when the primary has k; it returns the FLISV record
\* when k is in the loaded FLISV and the primary is not loaded or has no row
\* for k; and it does not raise when the primary is not loaded.
C14_FallbackChain ==
    \A t \in Threads :
        AtLookupEnd(t) =>
            LET k == nsn[t].niin
            IN  /\ HasKey("P_FLIS_NSN", k) => ReturnedFrom(t, "P_FLIS_NSN", k)
                /\ (HasKey("FLISV", k) /\ ~HasKey("P_FLIS_NSN", k))
                      => ReturnedFrom(t, "FLISV", k)
                /\ ~store["P_FLIS_NSN"].exists => nsn[t].pc # "raise"

\* The primary is loaded without the key and the record came from FLISV.
C14_Witness ==
    /\ AtLookupEnd("reader")
    /\ store["P_FLIS_NSN"].exists
    /\ ~HasKey("P_FLIS_NSN", nsn["reader"].niin)
    /\ ReturnedFrom("reader", "FLISV", nsn["reader"].niin)

(***************************************************************************)
(* Properties of the query services with one caller (SpecServices).        *)
(***************************************************************************)
\* Thread t stands at the return of a call of service operation op.
AtService(t, op) == top[t].op = op /\ svc[t].op = op

\* What the service behind category c gives for (q, n) when called on its
\* own, the engine failing on its query or not.
OwnSearch(c, q, n, fault) ==
    CASE c = "cage" -> cage_search(store, q, n, 0, fault)
      [] c = "fsc" -> search_fsc(store, q, fault)
      [] c = "nsn" -> nsn_search(store, q, << >>, n, 0, FALSE, fault)
      [] c = "item_names" -> item_name_search(store, q, n, fault)

\* list is the first rows of whole, at most n of them.
IsPrefix(list, whole, n) ==
    /\ Len(list) = (IF Len(whole) < n THEN Len(whole) ELSE n)
    /\ list = SubSeq(whole, 1, Len(list))

\* C15 (aggregator fault isolation): search_all(term, n) never raises and
\* returns exactly the categories cage, fsc, nsn, item_names; a category
\* whose query fails maps to the empty list, and every other category maps
\* to what its own service search returns for (term, n), the classification
\* list cut to n.
C15_AggregatorFaultIsolation ==
    \A t \in Threads :
        AtService(t, "search_all") =>
            /\ ~svc[t].raised
            /\ DOMAIN svc[t].value = Categories
            /\ \A c \in Categories :
                 LET own == OwnSearch(c, svc[t].args.q, svc[t].args.limit,
                                      svc[t].faults[c])
                 IN  IF own.raised THEN svc[t].value[c] = << >>
                     ELSE IF c = "fsc"
                     THEN IsPrefix(svc[t].value[c], own.value,
                                   svc[t].args.limit)
                     ELSE svc[t].value[c] = own.value

\* The classification relation is not loaded, the other three are: its list
\* is empty and the other three lists are not.
C15_Witness ==
    /\ AtService("main", "search_all")
    /\ ~store["V_H2_FSC"].exists
    /\ \A c \in Categories : ~svc["main"].faults[c]
    /\ svc["main"].value["fsc"] = << >>
    /\ \A c \in Categories \ {"fsc"} : svc["main"].value[c] # << >>

\* C16 (per-category cap): for every term and every limit n >= 1, each of
\* the four lists search_all(term, n) returns has at most n records, however
\* many rows match, the classification list included.
C16_PerCategoryCap ==
    \A t \in Threads :
        (AtService(t, "search_all") /\ ~svc[t].raised) =>
            \A c \in DOMAIN svc[t].value :
                Len(svc[t].value[c]) <= svc[t].args.limit

\* More classification rows match than the limit allows, and the list is
\* full.
C16_Witness ==
    /\ AtService("main", "search_all")
    /\ ~svc["main"].faults["fsc"]
    /\ store["V_H2_FSC"].exists
    /\ Len(search_fsc(store, svc["main"].args.q, FALSE).value)
         > svc["main"].args.limit
    /\ Len(svc["main"].value["fsc"]) = svc["main"].args.limit

\* C17 (location filter precondition): CAGEService.search_by_location called
\* with none of state, city, country fails with an InvalidArgument error; it
\* does not return an empty result as a success.
C17_LocationPrecondition ==
    \A t \in Threads :
        (/\ AtService(t, "search_by_location")
         /\ NoConditions(svc[t].args.state, svc[t].args.city,
                         svc[t].args.country))
        => /\ svc[t].raised
           /\ svc[t].error = "InvalidArgument"

\* The single-record lookups that send one query, and the relation each
\* reads.
KeyLookups == {"get_by_code", "get_fsc_by_code", "get_by_inc"}

LookupTable(op) ==
    CASE op = "get_by_code" -> "P_CAGE"
      [] op = "get_fsc_by_code" -> "V_H2_FSC"
      [] op = "get_by_inc" -> "V_H6_NAME_INC"

\* Row r is a row the lookup op asks for with key.
KeyMatches(op, key, r) ==
    CASE op = "get_by_code" -> CAGE_CODE(r) = Upper(key)
      [] op = "get_fsc_by_code" ->
            (IF key.type = "int" THEN FSC(r) = key.num
             ELSE IF IsInt(key.text) THEN FSC(r) = IntOf(key.text)
             ELSE TextOf(FSC(r)) = key.text)
      [] op = "get_by_inc" -> INC(r) = key

\* The rows of the lookup's relation that match the key of thread t's call.
Hits(t) ==
    SelectSeq(store[LookupTable(svc[t].op)].rows,
              LAMBDA r : KeyMatches(svc[t].op, svc[t].args.key, r))

\* A single-record lookup of thread t has ended; its relation is loaded and
\* the engine did not fail.
AtKeyLookupEnd(t) ==
    /\ svc[t].op \in KeyLookups
    /\ top[t].op = svc[t].op
    /\ store[LookupTable(svc[t].op)].exists
    /\ ~svc[t].faults.query

\* C18 (absence is a value for single-record lookups): get_by_code,
\* get_fsc_by_code, get_by_inc and get_by_niin give None, and no exception,
\* for a valid key that matches no row, and the first matching row when rows
\* match.
C18_AbsenceIsAValue ==
    \A t \in Threads :
        /\ AtKeyLookupEnd(t) =>
             /\ ~svc[t].raised
             /\ svc[t].value =
                  (IF Hits(t) = << >> THEN << >> ELSE <<Hits(t)[1]>>)
        /\ AtLookupEnd(t) =>
             LET k == nsn[t].niin
                 first == IF HasKey("P_FLIS_NSN", k) THEN "P_FLIS_NSN"
                          ELSE "FLISV"
             IN  /\ nsn[t].pc = "ret"
                 /\ IF HasKey("P_FLIS_NSN", k) \/ HasKey("FLISV", k)
                    THEN /\ nsn[t].result # << >>
                         /\ nsn[t].result =
                              <<SelectSeq(store[first].rows,
                                          LAMBDA r : r.niin = k)[1]>>
                    ELSE nsn[t].result = << >>

\* get_by_code on a loaded P_CAGE without the key gave None.
C18_Witness ==
    /\ AtKeyLookupEnd("main")
    /\ svc["main"].op = "get_by_code"
    /\ store["P_CAGE"].rows # << >>
    /\ Hits("main") = << >>
    /\ ~svc["main"].raised
    /\ svc["main"].value = << >>

\* The engine cannot run the statement of thread t's db.query call: the
\* relation is missing or the engine fails for a reason of its own.
EngineFails(t) ==
    \/ svc[t].faults.query
    \/ svc[t].args.table \notin DOMAIN store
    \/ ~store[svc[t].args.table].exists

\* C19 (query failures propagate): PubLogDatabase.query raises to its caller
\* whenever the engine fails and never returns an empty list in place of a
\* failure; a call that returns gives the rows of the relation.
C19_QueryFailuresPropagate ==
    \A t \in Threads :
        AtService(t, "query") =>
            /\ EngineFails(t) => svc[t].raised
            /\ ~svc[t].raised =>
                 /\ ~EngineFails(t)
                 /\ svc[t].value = store[svc[t].args.table].rows

\* A query on a relation that was never loaded raised.
C19_Witness ==
    /\ AtService("main", "query")
    /\ svc["main"].args.table \in DOMAIN store
    /\ ~store[svc["main"].args.table].exists
    /\ ~svc["main"].faults.query
    /\ svc["main"].raised

\* The relation whose absence makes a call of the stock-number service fail
\* soft.
SoftTable ==
    [nsn_search |-> "P_FLIS_NSN", get_by_fsc |-> "P_FLIS_NSN",
     get_management_data |-> "V_FLIS_MANAGEMENT",
     get_characteristics |-> "V_CHARACTERISTICS"]

\* C20 (soft failure on a missing relation): NSNService.search and
\* get_by_fsc return an empty list without raising when P_FLIS_NSN is not
\* loaded, and get_management_data / get_characteristics return an empty
\* list without raising when V_FLIS_MANAGEMENT / V_CHARACTERISTICS was never
\* loaded.
C20_SoftFailureOnMissingRelation ==
    \A t \in Threads :
        \A op \in DOMAIN SoftTable :
            (AtService(t, op) /\ ~store[SoftTable[op]].exists) =>
                /\ ~svc[t].raised
                /\ svc[t].value = << >>

\* get_management_data returned the empty list for a key whose relation
\* V_FLIS_MANAGEMENT was never loaded, while P_FLIS_NSN is loaded.
C20_Witness ==
    /\ AtService("main", "get_management_data")
    /\ ~store["V_FLIS_MANAGEMENT"].exists
    /\ store["P_FLIS_NSN"].exists
    /\ ~svc["main"].raised
    /\ svc["main"].value = << >>

(***************************************************************************)
(* Properties of the table description and of the classification service   *)
(* (SpecClasses).                                                          *)
(***************************************************************************)
\* The name thread t asked a description of is not a loaded relation: what
\* is_table_indexed answers for it is False.
NotLoaded(t) ==
    ~is_table_indexed(store, svc[t].args.table_name, FALSE)

\* C21 (describe of a missing relation fails with NotFound):
\* get_table_info(name) for a name that is not a loaded relation gives no
\* description: the handle's method answers with the empty dict and the API
\* handler with 404.
C21_DescribeMissingIsNotFound ==
    \A t \in Threads :
        /\ (AtService(t, "get_table_info") /\ NotLoaded(t)) =>
               svc[t].value = EmptyDict
        /\ (AtService(t, "api_get_table_info") /\ NotLoaded(t)) =>
               /\ svc[t].raised
               /\ svc[t].error = "http404"

\* C22 (group derivation): the group codes get_all_fsg reports are the
\* codes c div 100 of the rows of the class table, every (group, title)
\* pair once, so rows of one group with one title give one group.
C22_GroupDerivation ==
    \A t \in Threads :
        (AtService(t, "get_all_fsg") /\ ~svc[t].raised) =>
            LET rows == store["V_H2_FSG"].rows
                groups == svc[t].value
            IN  /\ {groups[i].FSG : i \in 1..Len(groups)} =
                       {FSC(rows[i]) \div 100 : i \in 1..Len(rows)}
                /\ \A i, j \in 1..Len(groups) :
                       groups[i] = groups[j] => i = j

\* The same class code in the other type: the number a str spells, the
\* decimal spelling of a number.
OtherType(code) ==
    IF code.type = "int" THEN Str(TextOf(code.num))
    ELSE Num(IntOf(code.text))

\* The first row of V_H2_FSC with the numeric code n, as a list of at most
\* one record.
ClassWithCode(n) ==
    FirstOrNone(SelectSeq(store["V_H2_FSC"].rows, LAMBDA r : FSC(r) = n))

\* The first row of V_H2_FSC whose code is spelled as text.
ClassSpelled(text) ==
    FirstOrNone(SelectSeq(store["V_H2_FSC"].rows,
                          LAMBDA r : TextOf(FSC(r)) = text))

\* C23 (numeric/string code fallback): get_fsc_by_code gives the same outcome
\* for a class code passed as a string of digits and as the number it
\* spells; an argument that parses as an integer is compared numerically
\* with FSC, and one that does not parse is compared with the text of FSC
\* and raises nothing.
C23_NumericStringFallback ==
    \A t \in Threads :
        AtService(t, "get_fsc_by_code") =>
            LET code == svc[t].args.key
                other == get_fsc_by_code(store, OtherType(code),
                                         svc[t].faults.query)
                ran == store["V_H2_FSC"].exists /\ ~svc[t].faults.query
            IN  /\ ParsesAsInt(code) =>
                      /\ svc[t].raised = other.raised
                      /\ svc[t].value = other.value
                /\ (ran /\ code.type = "int") =>
                      /\ ~svc[t].raised
                      /\ svc[t].value = ClassWithCode(code.num)
                /\ (ran /\ code.type = "str" /\ IsInt(code.text)) =>
                      /\ ~svc[t].raised
                      /\ svc[t].value = ClassWithCode(IntOf(code.text))
                /\ (ran /\ code.type = "str" /\ ~IsInt(code.text)) =>
                      /\ ~svc[t].raised
                      /\ svc[t].value = ClassSpelled(code.text)

\* get_fsc_by_code of the number 1095 returned the record of class 1095,
\* the one the string "1095" gives.
C23_Witness ==
    /\ AtService("main", "get_fsc_by_code")
    /\ svc["main"].args.key = Num(1095)
    /\ ~svc["main"].raised
    /\ svc["main"].value # << >>
    /\ FSC(svc["main"].value[1]) = 1095
    /\ svc["main"].value =
           get_fsc_by_code(store, Str(TextOf(1095)), FALSE).value

\* The rows of V_H2_FSC whose code lies in group g.
ClassesOfGroup(g) ==
    {r \in Range(store["V_H2_FSC"].rows) :
        g * 100 <= FSC(r) /\ FSC(r) < (g + 1) * 100}

\* C24 (classes in a group): get_fsc_by_fsg(g) returns exactly the class rows
\* with g*100 <= FSC < (g+1)*100, each once and in ascending order of FSC,
\* when g parses as an integer, and the empty list, with no query sent and
\* nothing raised, when g does not parse.
C24_ClassesInGroup ==
    \A t \in Threads :
        AtService(t, "get_fsc_by_fsg") =>
            LET fsg == svc[t].args.fsg
                list == svc[t].value
            IN  /\ ~ParsesAsInt(fsg) =>
                      /\ ~svc[t].raised
                      /\ list = << >>
                /\ (/\ ParsesAsInt(fsg)
                    /\ store["V_H2_FSC"].exists
                    /\ ~svc[t].faults.query) =>
                      /\ ~svc[t].raised
                      /\ Range(list) = ClassesOfGroup(PyInt(fsg))
                      /\ Len(list) = Cardinality(ClassesOfGroup(PyInt(fsg)))
                      /\ \A i \in 1..(Len(list) - 1) :
                             FSC(list[i]) <= FSC(list[i + 1])

\* get_fsc_by_fsg("10") returned the two classes of group 10 in ascending
\* order, which is not the order they are stored in.
C24_Witness ==
    /\ AtService("main", "get_fsc_by_fsg")
    /\ svc["main"].args.fsg = Str(<<"1", "0">>)
    /\ Len(svc["main"].value) = 2
    /\ FSC(svc["main"].value[1]) < FSC(svc["main"].value[2])
    /\ svc["main"].value[1] = store["V_H2_FSC"].rows[2]

\* The statements of the call thread t is in.
StatementsOf(t) == Statements(svc[t].op, svc[t].args)

\* C25 (injection safety): in every statement handed to the engine the text
\* is written in the source, no value the caller supplied is part of it, and
\* every argument the statement uses is a bound parameter.
C25_InjectionSafety ==
    \A t \in Threads :
        svc[t].op # "none" =>
            \A i \in 1..Len(StatementsOf(t)) :
                \A j \in 1..Len(StatementsOf(t)[i].text) :
                    StatementsOf(t)[i].text[j].origin = "literal"

(***************************************************************************)
(* Properties of index building (SpecIndexes).                             *)
(***************************************************************************)
\* The mapped table is loaded and is_table_indexed could read that.
SeenLoaded(t, table) ==
    store[table].exists /\ table \notin svc[t].faults.unreadable

\* The columns of table on which the call of thread t executed CREATE
\* INDEX, in order.
ColumnsTried(t, table) ==
    LET tried == SelectSeq(svc[t].value, LAMBDA a : a.table = table)
    IN  [i \in 1..Len(tried) |-> tried[i].column]

\* C26 (index building is non-fatal and changes no relation):
\* _create_search_indexes executes CREATE INDEX only on mapped tables that
\* are loaded, on every listed column of such a table even after an earlier
\* column failed, never raises, and leaves every relation as it was.
C26_IndexBuildingNonFatal ==
    /\ [](\A t \in Threads :
            AtService(t, "create_search_indexes") =>
                /\ ~svc[t].raised
                /\ \A i \in 1..Len(index_definitions) :
                       LET table == index_definitions[i]
                       IN  ColumnsTried(t, table) =
                               (IF SeenLoaded(t, table)
                                THEN index_columns(table) ELSE << >>))
    /\ [][\A t \in Threads :
            svc'[t].op = "create_search_indexes" => store' = store]_vars

\* CREATE INDEX failed on the first column of P_CAGE and was executed, with
\* success, on the three columns after it.
C26_Witness ==
    /\ AtService("main", "create_search_indexes")
    /\ Len(svc["main"].value) >= 4
    /\ svc["main"].value[1].table = "P_CAGE"
    /\ ~svc["main"].value[1].created
    /\ \A i \in 2..4 : svc["main"].value[i].created

(***************************************************************************)
(* Properties of the catalog (config.py), as the sweeps use it.            *)
(***************************************************************************)
\* No element of the list occurs twice.
NoRepeat(list) ==
    \A i, j \in 1..Len(list) : list[i] = list[j] => i = j

\* The logical names of DATA_FILES, category by category.
CatalogNames == [i \in 1..Len(DATA_FILES) |-> DATA_FILES[i][2]]

\* C27 (catalog well-formedness): every logical name occurs in exactly one
\* category of DATA_FILES, so that get_all_data_files keeps every entry; no
\* name is in both PRIORITY_TABLES and LARGE_TABLES; no tier list repeats a
\* name; every tier name is a catalog name.
C27_CatalogWellFormed ==
    /\ NoRepeat(CatalogNames)
    /\ FlattenNames(DATA_FILES) = CatalogNames
    /\ Range(PRIORITY_TABLES) \cap Range(LARGE_TABLES) = {}
    /\ NoRepeat(PRIORITY_TABLES)
    /\ NoRepeat(LARGE_TABLES)
    /\ Range(PRIORITY_TABLES) \cup Range(LARGE_TABLES)
           \subseteq Range(CatalogNames)
    /\ \A t \in Threads :
           DOMAIN sweep[t].results \subseteq Range(CatalogNames)

\* A full sweep over the catalog has loaded every table of it, tiered or
\* not.
C27_Witness ==
    \E t \in Threads :
        /\ InFullSweep(t)
        /\ sweep[t].phase = "indexes"
        /\ DOMAIN sweep[t].results = Tables
        /\ \A n \in Tables : sweep[t].results[n] /\ store[n].exists

(***************************************************************************)
(* Properties of callers that never force (SpecPlain).                     *)
(***************************************************************************)
\* C28 (non-forced loading is monotone): over any sequence of
\* index_csv_file calls and sweeps that all use force=False, no step drops
\* or replaces a loaded relation: a relation that is loaded stays loaded
\* with the rows it has.
C28_NonForcedMonotone ==
    [][\A n \in Tables : store[n].exists => store'[n] = store[n]]_vars

\* A non-forced load of a relation that is loaded from an older version of
\* its file could not read that it is loaded, went on to CREATE TABLE, and
\* returned with the relation as it was.
C28_Witness ==
    \E t \in Threads :
        /\ csv[t].pc = "ret"
        /\ ~csv[t].force
        /\ csv[t].metaFault
        /\ csv[t].raisedAt = "create"
        /\ store[csv[t].table].exists
        /\ files[csv[t].table].exists
        /\ store[csv[t].table].rows # ReadCsvAuto(files[csv[t].table].lines)

\* C29 (a reported success means the relation is there): with a single
\* loader, when index_csv_file returns True the relation is loaded, at the
\* end of a sweep every name reported True is a loaded relation, and a
\* relation that is loaded when the call returns is not reported False.
C29_ReportedSuccessMeansLoaded ==
    \A t \in Threads :
        /\ csv[t].pc = "ret" =>
               (csv[t].ret <=> store[csv[t].table].exists)
        /\ (sweep[t].phase = "done" /\ ~sweep[t].raised) =>
               \A n \in DOMAIN sweep[t].results :
                   sweep[t].results[n] => store[n].exists

(***************************************************************************)
(* Properties of the handles services keep (SpecHandle).                   *)
(***************************************************************************)
\* C30 (handles stay valid across close): whenever no get_db() call is
\* under way, every handle a service stored at its construction is the
\* object get_db() returns, and its connection is open.
C30_HandlesStayValid ==
    (\A t \in Threads : getdb[t].pc = "none") =>
        \A h \in cls.held :
            /\ h = cls.instance
            /\ cls.made[h] # 0
            /\ cls.made[h] \notin cls.closed

====
